---------------------------- MODULE Spec2Model ----------------------------
(***************************************************************************)
(* ChronoUI: the property store of the UI tree (ContextNodeImpl and the    *)
(* WidgetImpl override), the style cascade resolver (GetStyle) and the     *)
(* stylesheet manager (StyleManager).  Strings are TLA+ strings; a key     *)
(* such as "btn:danger:color:hover" is the same text the C++ code builds.  *)
(***************************************************************************)
EXTENDS Integers, Sequences, FiniteSets, TLC

VARIABLES
    m_parent,       \* ContextNodeImpl::m_parent of every node
    m_properties,   \* ContextNodeImpl::m_properties of every node
    m_checked,      \* WidgetImpl::m_checked of every widget
    m_validated,    \* WidgetImpl::m_validated of every widget
    m_hwnd,         \* WidgetImpl::m_hwnd is non-null (the widget has a window)
    wndEnabled,     \* IsWindowEnabled(m_hwnd) of every widget's window
    registry,       \* StyleManager::_registry
    last,           \* the last call: its arguments and what it returned
    calls,          \* how many stylesheet, class, property, cell and drag calls were made
    dpi,            \* GetDpiForWindow of the window the layout lives in
    m_rows,         \* LayoutImpl::m_rows, one DimPlan per row
    m_cols,         \* LayoutImpl::m_cols, one DimPlan per column
    m_cells,        \* LayoutImpl::m_cells, row-major, with each cell's parent
    m_lastRect,     \* LayoutImpl::m_lastRect
    named_cells,    \* LayoutImpl::named_cells
    widgets,        \* CellImpl::widgets of every cell
    nested,         \* CellImpl::nested is non-null, for every cell
    m_mode,         \* CellImpl::m_mode of every cell
    m_activeTab,    \* CellImpl::m_activeTab of every cell
    overflowItems,  \* CellImpl::overflowItems of every cell
    overflowButton, \* CellImpl::overflowButton is non-null, for every cell
    hwndParent,     \* GetParent of every widget's window (the cell it is in)
    visible,        \* IsWindowVisible of every widget's window
    leftWindows,    \* the windows an earlier Create of a widget left in a cell
    popup,          \* the ShowOverflowPopup call that is in its message loop
    m_registeredWidgets, \* ContainerImpl::m_registeredWidgets of the container
    g_WidgetToPluginMap, \* the widgets WidgetFactory keeps track of
    destroys,       \* how often WidgetImpl::Destroy ran on every widget made
    m_overlay,      \* ContainerImpl::m_overlay of the container
    loops           \* the RunMessageLoop calls of overflow popups, innermost first

\* the property store and the style registry
storeVars == <<m_parent, m_properties, m_checked, m_validated, m_hwnd,
               wndEnabled, registry>>

\* the grid layout
layoutVars == <<dpi, m_rows, m_cols, m_cells, m_lastRect, named_cells>>

\* the widgets the container and the factory know; the trigger model keeps
\* track of them, the other models leave them as they start
factoryVars == <<m_registeredWidgets, g_WidgetToPluginMap, destroys, m_overlay>>

\* the cells, the windows of their widgets and the widgets that exist
cellVars == <<widgets, nested, m_mode, m_activeTab, overflowItems,
              overflowButton, hwndParent, visible, leftWindows, popup,
              factoryVars, loops>>

\* the layout and the cells
uiVars == <<layoutVars, cellVars>>

vars == <<m_parent, m_properties, m_checked, m_validated, m_hwnd, wndEnabled,
          registry, last, calls, uiVars>>

---------------------------------------------------------------------------
(* Bounds of the explored behaviours.                                      *)

\* local entries written by the application (beyond the default styles)
MaxSets == 1
\* local style entries written on the widget before its style is resolved
MaxStyleSets == 1
\* LoadCSS calls
MaxLoads == 2
\* AddClass / RemoveClass / ToggleClass calls
MaxClassOps == 2
\* SetProperty calls of the application between the class calls
MaxCssSets == 1

---------------------------------------------------------------------------
(* Text helpers.                                                           *)

\* the characters of the texts used here, in the order of their char codes
\* (std::string comparison)
Ascii == "\t\n\r !\"#$%&'()*+,-./0123456789:;<=>?@ABCDEFGHIJKLMNOPQRSTUVWXYZ[\\]^_abcdefghijklmnopqrstuvwxyz{|}~"

CharAt(s, i) == SubSeq(s, i, i)

CharRanks ==
    [c \in {CharAt(Ascii, i) : i \in 1..Len(Ascii)} |->
        CHOOSE i \in 1..Len(Ascii) : CharAt(Ascii, i) = c]

CharRank(c) == CharRanks[c]

\* std::string operator< : lexicographic on char codes, a proper prefix first
RECURSIVE StrLess(_, _)
StrLess(a, b) ==
    IF b = "" THEN FALSE
    ELSE IF a = "" THEN TRUE
    ELSE IF Head(a) = Head(b) THEN StrLess(Tail(a), Tail(b))
    ELSE CharRank(Head(a)) < CharRank(Head(b))

\* the iteration order of a std::set<std::string> / the keys of a std::map
RECURSIVE SortedSeq(_)
SortedSeq(S) ==
    IF S = {} THEN << >>
    ELSE LET m == CHOOSE x \in S : \A y \in S \ {x} : StrLess(x, y)
         IN  <<m>> \o SortedSeq(S \ {m})

IsSpace(c) == c \in {" ", "\t", "\n", "\r"}

\* std::string::find(text, from): index (1-based) of the first occurrence of
\* text that starts at or after from, 0 for npos
FindText(s, text, from) ==
    LET At(i) == SubSeq(s, i, i + Len(text) - 1) = text
        end == Len(s) - Len(text) + 1
    IN  IF \E i \in from..end : At(i)
        THEN CHOOSE i \in from..end : At(i) /\ \A j \in from..(i - 1) : ~At(j)
        ELSE 0

FindChar(s, ch, from) == FindText(s, ch, from)

\* Internal::Trim: from the first to the last character that is not
\* whitespace; a string of only whitespace is returned unchanged
Trim(str) ==
    LET Text(i) == ~IsSpace(CharAt(str, i))
        n == Len(str)
    IN  IF \A i \in 1..n : ~Text(i) THEN str
        ELSE SubSeq(str,
                    CHOOSE i \in 1..n : Text(i) /\ \A j \in 1..(i - 1) : ~Text(j),
                    CHOOSE i \in 1..n : Text(i) /\ \A j \in (i + 1)..n : ~Text(j))

\* the std::getline loop of Split: the pieces the delimiters end; getline
\* fails, and the loop stops, when nothing is left to read, so an empty
\* string and the empty rest after a last delimiter give no piece
RECURSIVE Pieces(_, _)
Pieces(str, delimiter) ==
    LET i == FindChar(str, delimiter, 1)
    IN  IF str = "" THEN << >>
        ELSE IF i = 0 THEN <<str>>
        ELSE <<SubSeq(str, 1, i - 1)>>
             \o Pieces(SubSeq(str, i + 1, Len(str)), delimiter)

RECURSIVE TrimAll(_)
TrimAll(seq) ==
    IF seq = << >> THEN << >> ELSE <<Trim(Head(seq))>> \o TrimAll(Tail(seq))

\* Split: every piece trimmed, the pieces that trim to "" dropped
Split(str, delimiter) ==
    SelectSeq(TrimAll(Pieces(str, delimiter)), LAMBDA t : t # "")

Range(seq) == {seq[i] : i \in 1..Len(seq)}

---------------------------------------------------------------------------
(* The nodes of the UI tree.                                               *)

NoNode == "null"

\* ChronoControllerImpl::Instance(), a ContainerImpl, its root LayoutImpl,
\* a CellImpl of that layout, a widget, a PanelImpl (a widget that holds a
\* layout), the LayoutImpl of the panel and a CellImpl of that layout
Nodes == {"ctl", "con", "lay", "cell", "wid", "pan", "play", "pcell"}
Widgets == {"wid", "pan"}

\* ChronoControllerImpl::SetDefaultStyles
DefaultStyles ==
    [k \in {"background-color", "background-color:hover", "foreground-color",
            "foreground-color:hover", "border-color", "border-color:hover",
            "color", "color:hover", "image-align", "border-radius",
            "StaticText:background-color", "StaticText:background-color:hover",
            "StaticText:foreground-color:hover", "StaticText:border-color:hover",
            "StaticText:border-width:hover",
            "StaticText:danger:background-color",
            "ViewDateTimeWidget:background-color",
            "ViewDateTimeWidget:background-color:hover",
            "ViewDateTimeWidget:foreground-color:hover",
            "ViewDateTimeWidget:border-color:hover",
            "ViewDateTimeWidget:border-width:hover",
            "ViewDateTimeWidget:danger:background-color",
            "font-family", "font-size", "font-size:hover", "font-style",
            "text-align"} |->
        CASE k = "background-color" -> "#ffffff"
          [] k = "background-color:hover" -> "#f9f9f9"
          [] k = "foreground-color" -> "#333333"
          [] k = "foreground-color:hover" -> "#333333"
          [] k = "border-color" -> "#e0e0e0"
          [] k = "border-color:hover" -> "#b3e5fc"
          [] k = "color" -> "#ffffff"
          [] k = "color:hover" -> "#fefefe"
          [] k = "image-align" -> "right"
          [] k = "border-radius" -> "2"
          [] k = "StaticText:background-color" -> "#ffffff"
          [] k = "StaticText:background-color:hover" -> "#e3f2fd"
          [] k = "StaticText:foreground-color:hover" -> "#333333"
          [] k = "StaticText:border-color:hover" -> "#90caf9"
          [] k = "StaticText:border-width:hover" -> "1"
          [] k = "StaticText:danger:background-color" -> "#ffcdd2"
          [] k = "ViewDateTimeWidget:background-color" -> "#fcfcfc"
          [] k = "ViewDateTimeWidget:background-color:hover" -> "#e8f5e9"
          [] k = "ViewDateTimeWidget:foreground-color:hover" -> "#333333"
          [] k = "ViewDateTimeWidget:border-color:hover" -> "#a5d6a7"
          [] k = "ViewDateTimeWidget:border-width:hover" -> "1"
          [] k = "ViewDateTimeWidget:danger:background-color" -> "#ffcdd2"
          [] k = "font-family" -> "Segoe UI"
          [] k = "font-size" -> "10"
          [] k = "font-size:hover" -> "12"
          [] k = "font-style" -> "normal"
          [] k = "text-align" -> "center"]

EmptyMap == [k \in {} |-> ""]

\* m[key] = value of a std::map / std::unordered_map
Put(m, key, value) == [k \in DOMAIN m \cup {key} |-> IF k = key THEN value ELSE m[k]]

---------------------------------------------------------------------------
(* The property store.  W is the part of the state the property calls read *)
(* and write: [props, checked, validated, enabled].                        *)

CurW == [props |-> m_properties, checked |-> m_checked,
         validated |-> m_validated, enabled |-> wndEnabled]

BoolText(b) == IF b THEN "true" ELSE "false"

\* ContextNodeImpl::GetProperty, with the virtual call on the parent, and the
\* WidgetImpl::GetProperty override
RECURSIVE NodeGetProperty(_, _, _, _)
ContextGetPropertyMutNoParent(W, n, key, def) ==
    IF key \in DOMAIN W.props[n] THEN W.props[n][key]
    ELSE def

ContextGetPropertyMutParentFirst(W, n, key, def) ==
    IF m_parent[n] # NoNode
       /\ NodeGetProperty(W, m_parent[n], key, "") # ""
    THEN NodeGetProperty(W, m_parent[n], key, def)
    ELSE IF key \in DOMAIN W.props[n] THEN W.props[n][key]
    ELSE def

ContextGetProperty(W, n, key, def) ==
    IF key \in DOMAIN W.props[n] THEN W.props[n][key]
    ELSE IF m_parent[n] # NoNode THEN NodeGetProperty(W, m_parent[n], key, def)
    ELSE def

WidgetGetProperty(W, n, key, def) ==
    IF key = "checked" THEN BoolText(W.checked[n])
    ELSE IF key = "validated" THEN BoolText(W.validated[n])
    ELSE IF m_hwnd[n] /\ key = "enabled" THEN BoolText(W.enabled[n])
    ELSE IF m_hwnd[n] /\ key = "disabled" THEN BoolText(~W.enabled[n])
    ELSE ContextGetProperty(W, n, key, def)

NodeGetProperty(W, n, key, def) ==
    IF n \in Widgets THEN WidgetGetProperty(W, n, key, def)
    ELSE ContextGetProperty(W, n, key, def)

GetProperty(n, key, def) == NodeGetProperty(CurW, n, key, def)

\* ContextNodeImpl::SetProperty (and the CellImpl, LayoutImpl, ContainerImpl
\* overrides, which store the value the same way)
ContextSetProperty(W, n, key, value) ==
    [W EXCEPT !.props[n] = Put(@, key, value)]

\* WidgetImpl::PerformValidation with no validator attached: isValid is true
PerformValidation(W, n) ==
    IF W.validated[n] # TRUE
    THEN [W EXCEPT !.validated[n] = TRUE,
                   !.props[n] = Put(@, "validated", "true")]
    ELSE W

\* WidgetImpl::OnPropertyChanged
OnPropertyChanged(W, n, key, value) ==
    LET W1 == IF key = "checked" THEN [W EXCEPT !.checked[n] = (value = "true")]
              ELSE IF key = "validated"
                   THEN [W EXCEPT !.validated[n] = (value = "true")]
              ELSE W
        W2 == IF key \in {"value", "text"} THEN PerformValidation(W1, n) ELSE W1
    IN  IF m_hwnd[n] /\ key = "enabled"
        THEN [W2 EXCEPT !.enabled[n] = (value = "true")]
        ELSE IF m_hwnd[n] /\ key = "disabled"
        THEN [W2 EXCEPT !.enabled[n] = ~(value = "true")]
        ELSE W2

\* WidgetImpl::SetProperty
WidgetSetProperty(W, n, key, value) ==
    OnPropertyChanged(ContextSetProperty(W, n, key, value), n, key, value)

NodeSetProperty(W, n, key, value) ==
    IF n \in Widgets THEN WidgetSetProperty(W, n, key, value)
    ELSE ContextSetProperty(W, n, key, value)


---------------------------------------------------------------------------
(* The style cascade resolver.                                             *)

HasPropertyMutPresent(W, n, key) ==
    key \in DOMAIN W.props[n] \/ NodeGetProperty(W, n, key, "") # ""

\* ContextNodeImpl::HasProperty
HasProperty(W, n, key) == NodeGetProperty(W, n, key, "") # ""

TryResolveStateMutSelectedFirst(W, n, baseKey, selected, enabled, hovered, active) ==
    IF ~enabled /\ HasProperty(W, n, baseKey \o ":disabled")
    THEN NodeGetProperty(W, n, baseKey \o ":disabled", "")
    ELSE IF selected /\ HasProperty(W, n, baseKey \o ":selected")
    THEN NodeGetProperty(W, n, baseKey \o ":selected", "")
    ELSE IF hovered /\ HasProperty(W, n, baseKey \o ":hover")
    THEN NodeGetProperty(W, n, baseKey \o ":hover", "")
    ELSE IF active /\ HasProperty(W, n, baseKey \o ":active")
    THEN NodeGetProperty(W, n, baseKey \o ":active", "")
    ELSE IF HasProperty(W, n, baseKey)
    THEN NodeGetProperty(W, n, baseKey, "")
    ELSE ""

TryResolveStateMutHoverFirst(W, n, baseKey, selected, enabled, hovered, active) ==
    IF hovered /\ HasProperty(W, n, baseKey \o ":hover")
    THEN NodeGetProperty(W, n, baseKey \o ":hover", "")
    ELSE IF ~enabled /\ HasProperty(W, n, baseKey \o ":disabled")
    THEN NodeGetProperty(W, n, baseKey \o ":disabled", "")
    ELSE IF selected /\ HasProperty(W, n, baseKey \o ":selected")
    THEN NodeGetProperty(W, n, baseKey \o ":selected", "")
    ELSE IF active /\ HasProperty(W, n, baseKey \o ":active")
    THEN NodeGetProperty(W, n, baseKey \o ":active", "")
    ELSE IF HasProperty(W, n, baseKey)
    THEN NodeGetProperty(W, n, baseKey, "")
    ELSE ""

\* ContextNodeImpl::TryResolveState
TryResolveState(W, n, baseKey, selected, enabled, hovered, active) ==
    IF ~enabled /\ HasProperty(W, n, baseKey \o ":disabled")
    THEN NodeGetProperty(W, n, baseKey \o ":disabled", "")
    ELSE IF hovered /\ HasProperty(W, n, baseKey \o ":hover")
    THEN NodeGetProperty(W, n, baseKey \o ":hover", "")
    ELSE IF selected /\ HasProperty(W, n, baseKey \o ":selected")
    THEN NodeGetProperty(W, n, baseKey \o ":selected", "")
    ELSE IF active /\ HasProperty(W, n, baseKey \o ":active")
    THEN NodeGetProperty(W, n, baseKey \o ":active", "")
    ELSE IF HasProperty(W, n, baseKey)
    THEN NodeGetProperty(W, n, baseKey, "")
    ELSE ""

GetStyleInMutClassFirst(W, n, prop, def, classid, variant, selected, enabled, hovered, active) ==
    LET variantKey == classid \o ":" \o variant \o ":" \o prop
        classKey == classid \o ":" \o prop
        r1 == IF variant # ""
              THEN TryResolveState(W, n, variantKey, selected, enabled, hovered, active)
              ELSE ""
        r2 == IF classid # ""
              THEN TryResolveState(W, n, classKey, selected, enabled, hovered, active)
              ELSE ""
        r3 == TryResolveState(W, n, prop, selected, enabled, hovered, active)
    IN  IF r2 # "" THEN r2
        ELSE IF r1 # "" THEN r1
        ELSE IF r3 # "" THEN r3
        ELSE def

GetStyleInMutBareFirst(W, n, prop, def, classid, variant, selected, enabled, hovered, active) ==
    LET variantKey == classid \o ":" \o variant \o ":" \o prop
        classKey == classid \o ":" \o prop
        r1 == IF variant # ""
              THEN TryResolveState(W, n, variantKey, selected, enabled, hovered, active)
              ELSE ""
        r2 == IF classid # ""
              THEN TryResolveState(W, n, classKey, selected, enabled, hovered, active)
              ELSE ""
        r3 == TryResolveState(W, n, prop, selected, enabled, hovered, active)
    IN  IF r3 # "" THEN r3
        ELSE IF r2 # "" THEN r2
        ELSE IF r1 # "" THEN r1
        ELSE def

\* ContextNodeImpl::GetStyle
GetStyleIn(W, n, prop, def, classid, variant, selected, enabled, hovered, active) ==
    LET variantKey == classid \o ":" \o variant \o ":" \o prop
        classKey == classid \o ":" \o prop
        r1 == IF variant # ""
              THEN TryResolveState(W, n, variantKey, selected, enabled, hovered, active)
              ELSE ""
        r2 == IF classid # ""
              THEN TryResolveState(W, n, classKey, selected, enabled, hovered, active)
              ELSE ""
        r3 == TryResolveState(W, n, prop, selected, enabled, hovered, active)
    IN  IF r1 # "" THEN r1
        ELSE IF r2 # "" THEN r2
        ELSE IF r3 # "" THEN r3
        ELSE def

GetStyle(n, prop, def, classid, variant, selected, enabled, hovered, active) ==
    GetStyleIn(CurW, n, prop, def, classid, variant, selected, enabled, hovered, active)

---------------------------------------------------------------------------
(* The grid layout (LayoutImpl): size policies and tracks.                 *)
(* A float that holds a whole number is the integer it holds.              *)

\* the layout under study is CreateLayout(m_rCount, m_cCount)
m_rCount == 2
m_cCount == 3

\* thickness of a splitter bar at 96 DPI
SPLITTER_SIZE == 6

\* WidgetSize::Fixed
Fixed(px) == [unit |-> "Pixels", value |-> px, metric |-> "TitleBar"]

\* WidgetSize::Fill
Fill(weight) == [unit |-> "Fill", value |-> weight, metric |-> "TitleBar"]

\* WidgetSize::Percent
Percent(p) == [unit |-> "Percent", value |-> p, metric |-> "TitleBar"]

\* WidgetSize::System
System(m) == [unit |-> "System", value |-> 0, metric |-> m]

\* a DimPlan as LayoutImpl::LayoutImpl builds it: { Fill(), Fixed(20) }
\* and the member initialisers of the struct
DimPlan ==
    [size |-> Fill(1), min |-> Fixed(20), pos |-> 0, actual |-> 0,
     splitter |-> FALSE, sd |-> FALSE, savedSize |-> Fixed(0),
     isCollapsed |-> FALSE]

\* MulDiv of the Windows API: a * b / c rounded to the nearest integer,
\* halves away from zero
MulDiv(a, b, c) ==
    IF a * b >= 0 THEN (a * b + (c \div 2)) \div c
    ELSE -((-(a * b) + (c \div 2)) \div c)

\* Scale(hwnd, px) in a window of DPI d
ScaleDpi(px, d) == MulDiv(px, d, 96)

\* Scale(m_parentNode, px)
Scale(px) == ScaleDpi(px, dpi)

\* (int)(total * value / 100.0f): the quotient truncated towards zero
PercentOf(total, value) ==
    IF total * value >= 0 THEN (total * value) \div 100
    ELSE -((-(total * value)) \div 100)

\* the state LayoutImpl::LayoutImpl leaves behind; rows, columns and cells
\* are numbered from 0 as in the code
LayoutCtor ==
    /\ m_rows = [i \in 0..(m_rCount - 1) |-> DimPlan]
    /\ m_cols = [i \in 0..(m_cCount - 1) |-> DimPlan]
    /\ m_cells = [i \in 0..(m_rCount * m_cCount - 1) |-> [m_parent |-> NoNode]]
    /\ m_lastRect = [left |-> 0, top |-> 0, right |-> 0, bottom |-> 0]
    /\ named_cells = EmptyMap

\* the layout in a window of 96 DPI
InitLayout == dpi = 96 /\ LayoutCtor

\* the cells of the models: a command bar, a second cell, the cell of the
\* popup that ShowOverflowPopup creates, and the cell of a nested layout
CellIds == {"bar", "side", "popup", "inner"}

\* no cell: GetParent of a widget that has no window
NoCell == "none"

\* the widgets of the models
WidgetIds ==
    {"w1", "w2", "w3", "w4", "w5", "w6", "w7", "w8", "w9", "w10", "w11", "w12"}

\* no ShowOverflowPopup call is in its message loop
NoPopup == [open |-> FALSE, cell |-> NoCell, movedItems |-> <<>>,
            registered |-> {}]

\* the state CellImpl::CellImpl leaves behind, with widgets that the
\* factory has created but that have no window yet
InitCells ==
    /\ widgets = [c \in CellIds |-> <<>>]
    /\ nested = [c \in CellIds |-> FALSE]
    /\ m_mode = [c \in CellIds |-> "Vertical"]
    /\ m_activeTab = [c \in CellIds |-> 0]
    /\ overflowItems = [c \in CellIds |-> <<>>]
    /\ overflowButton = [c \in CellIds |-> FALSE]
    /\ hwndParent = [w \in WidgetIds |-> NoCell]
    /\ visible = [w \in WidgetIds |-> FALSE]
    /\ leftWindows = {}
    /\ popup = NoPopup

\* ContainerImpl::m_overlay = nullptr
NoOverlay == "nullptr"

\* GetParent of the window of an overlay: the window of the container
ContainerWindow == "container"

\* WidgetFactory::Create has made the widgets of the models; none is
\* registered with a container yet and the container has no overlay
InitFactory ==
    /\ m_registeredWidgets = {}
    /\ g_WidgetToPluginMap = WidgetIds
    /\ destroys = [w \in WidgetIds |-> 0]
    /\ m_overlay = NoOverlay

\* the layout and the cells where a model leaves them alone
\* no overflow popup is open: no RunMessageLoop of a popup is on the stack
InitLoops == loops = <<>>

InitUi == InitLayout /\ InitCells /\ InitFactory /\ InitLoops

---------------------------------------------------------------------------
(* The calls.  last records the call and its result.                       *)

NoCall == [op |-> "none", node |-> NoNode, key |-> "", val |-> "",
           cid |-> "", var |-> "", sel |-> FALSE, en |-> FALSE,
           hov |-> FALSE, act |-> FALSE, res |-> "", sheet |-> << >>]

NoCalls == [loads |-> 0, classops |-> 0, sets |-> 0, cellops |-> 0, drags |-> 0,
            destroyalls |-> 0]

\* the objects the application holds a pointer to: the controller, the
\* container and the widget from their construction, the root layout from
\* CreateRootLayout, the cell from GetCell, the panel from CreateChronoPanel
\* (its constructor has set its id) and its layout from CreateLayout
Held(n) ==
    \/ n \in {"ctl", "con", "wid"}
    \/ m_parent[n] # NoNode
    \/ n = "pan" /\ "id" \in DOMAIN m_properties[n]

\* WidgetImpl::WidgetImpl: every widget starts with the automatic id
\* "widget_<counter>"; the counter starts at 1000 and the tree has one widget
WidgetImplCtor == [k \in {"id"} |-> "widget_1000"]

\* PanelImpl::PanelImpl, the second widget that is made: the id of the
\* WidgetImpl constructor, then SetProperty("subclass", "panel")
PanelImplCtor ==
    [k \in {"id", "subclass"} |-> IF k = "id" THEN "widget_1001" ELSE "panel"]

\* the local properties a node has from its constructor: the default styles
\* on the controller, the automatic id on the widget and on the panel
CtorProperties(n) ==
    CASE n = "ctl" -> DefaultStyles
      [] n = "wid" -> WidgetImplCtor
      [] n = "pan" -> PanelImplCtor
      [] OTHER -> EmptyMap

\* the local properties of every node at the start; the panel is not made
Constructed ==
    [n \in Nodes |-> IF n = "pan" THEN EmptyMap ELSE CtorProperties(n)]

\* the local entries that differ from the state after construction
Entries ==
    UNION { UNION {
        {<<n, k>> : k \in {k \in DOMAIN m_properties[n] :
                              ~(k \in DOMAIN c /\ m_properties[n][k] = c[k])}} :
            c \in {CtorProperties(n)}} :
            n \in Nodes}

\* ContainerImpl::ContainerImpl attaches the container to the controller
InitTree ==
    /\ m_parent = [n \in Nodes |-> IF n = "con" THEN "ctl" ELSE NoNode]
    /\ m_properties = Constructed
    /\ m_checked = [w \in Widgets |-> FALSE]
    /\ m_validated = [w \in Widgets |-> TRUE]
    /\ m_hwnd = [w \in Widgets |-> FALSE]
    /\ wndEnabled = [w \in Widgets |-> FALSE]
    /\ registry = EmptyMap
    /\ last = NoCall
    /\ calls = NoCalls
    /\ InitUi

\* ContainerImpl::CreateRootLayout (the first root layout of the container)
CreateRootLayout ==
    /\ m_parent["lay"] = NoNode
    /\ m_parent' = [m_parent EXCEPT !["lay"] = "con"]
    /\ last' = [NoCall EXCEPT !.op = "CreateRootLayout", !.node = "lay"]
    /\ UNCHANGED <<m_properties, m_checked, m_validated, m_hwnd, wndEnabled,
                   registry, calls>>

\* LayoutImpl::GetCell(int, int) on the root layout
GetCell ==
    /\ m_parent["lay"] # NoNode
    /\ m_parent' = [m_parent EXCEPT !["cell"] =
                        IF m_parent["cell"] = NoNode THEN "lay" ELSE @]
    /\ last' = [NoCall EXCEPT !.op = "GetCell", !.node = "cell"]
    /\ UNCHANGED <<m_properties, m_checked, m_validated, m_hwnd, wndEnabled,
                   registry, calls>>

\* CellImpl::AddWidget: WidgetImpl::Create makes the widget's window (a new
\* window is enabled), then the cell becomes the widget's parent node
AddWidget(w) ==
    /\ m_parent["cell"] # NoNode
    /\ Held(w)
    /\ m_parent[w] = NoNode
    /\ m_hwnd' = [m_hwnd EXCEPT ![w] = TRUE]
    /\ wndEnabled' = [wndEnabled EXCEPT ![w] = TRUE]
    /\ m_parent' = [m_parent EXCEPT ![w] = "cell"]
    /\ last' = [NoCall EXCEPT !.op = "AddWidget", !.node = w]
    /\ UNCHANGED <<m_properties, m_checked, m_validated, registry, calls>>

\* CreateChronoPanel: a PanelImpl without parent node and without window
CreateChronoPanel ==
    /\ ~Held("pan")
    /\ m_properties' = [m_properties EXCEPT !["pan"] = PanelImplCtor]
    /\ last' = [NoCall EXCEPT !.op = "CreateChronoPanel", !.node = "pan"]
    /\ UNCHANGED <<m_parent, m_checked, m_validated, m_hwnd, wndEnabled,
                   registry, calls>>

\* PanelImpl::CreateLayout (the first layout of the panel): the panel is the
\* parent node of its layout
PanelCreateLayout ==
    /\ Held("pan")
    /\ m_parent["play"] = NoNode
    /\ m_parent' = [m_parent EXCEPT !["play"] = "pan"]
    /\ last' = [NoCall EXCEPT !.op = "CreateLayout", !.node = "play"]
    /\ UNCHANGED <<m_properties, m_checked, m_validated, m_hwnd, wndEnabled,
                   registry, calls>>

\* LayoutImpl::GetCell(int, int) on the layout of the panel
PanelGetCell ==
    /\ m_parent["play"] # NoNode
    /\ m_parent' = [m_parent EXCEPT !["pcell"] =
                        IF m_parent["pcell"] = NoNode THEN "play" ELSE @]
    /\ last' = [NoCall EXCEPT !.op = "GetCell", !.node = "pcell"]
    /\ UNCHANGED <<m_properties, m_checked, m_validated, m_hwnd, wndEnabled,
                   registry, calls>>

\* node->SetProperty(key, value)
SetPropertyCall(n, key, value) ==
    /\ Held(n)
    /\ LET W == NodeSetProperty(CurW, n, key, value)
       IN  /\ m_properties' = W.props
           /\ m_checked' = W.checked
           /\ m_validated' = W.validated
           /\ wndEnabled' = W.enabled
    /\ last' = [NoCall EXCEPT !.op = "SetProperty", !.node = n, !.key = key,
                              !.val = value]
    /\ UNCHANGED <<m_parent, m_hwnd, registry>>

\* node->GetProperty(key, def)
GetPropertyCall(n, key, def) ==
    /\ Held(n)
    /\ last' = [NoCall EXCEPT !.op = "GetProperty", !.node = n, !.key = key,
                              !.val = def, !.res = GetProperty(n, key, def)]
    /\ UNCHANGED <<m_parent, m_properties, m_checked, m_validated, m_hwnd,
                   wndEnabled, registry, calls>>

\* node->GetStyle(prop, def, classid, variant, selected, enabled, hovered, active)
GetStyleCall(n, prop, def, classid, variant, selected, enabled, hovered, active) ==
    /\ Held(n)
    /\ last' = [NoCall EXCEPT !.op = "GetStyle", !.node = n, !.key = prop,
                   !.val = def, !.cid = classid, !.var = variant,
                   !.sel = selected, !.en = enabled, !.hov = hovered,
                   !.act = active,
                   !.res = GetStyle(n, prop, def, classid, variant,
                                    selected, enabled, hovered, active)]
    /\ UNCHANGED <<m_parent, m_properties, m_checked, m_validated, m_hwnd,
                   wndEnabled, registry, calls>>

---------------------------------------------------------------------------
(* Spec: the tree is built and properties are set and read on its nodes.   *)

StoreKeys == {"color", "checked", "validated", "enabled", "disabled"}
StoreValues == {"", "true", "false"}
StoreDefaults == {"", "dflt"}

\* the default the reads of Spec pass: a text that no node stores
ReadDefaults == {"dflt"}

Init == InitTree

Next ==
    \/ CreateRootLayout /\ UNCHANGED uiVars
    \/ GetCell /\ UNCHANGED uiVars
    \/ \E w \in Widgets :
          /\ AddWidget(w)
          /\ UNCHANGED uiVars
    \/ CreateChronoPanel /\ UNCHANGED uiVars
    \/ PanelCreateLayout /\ UNCHANGED uiVars
    \/ PanelGetCell /\ UNCHANGED uiVars
    \/ \E written \in {Entries} :
          \E n \in Nodes, k \in StoreKeys, v \in StoreValues :
             /\ Cardinality(written \cup {<<n, k>>}) <= MaxSets
             /\ SetPropertyCall(n, k, v)
             /\ UNCHANGED calls
             /\ UNCHANGED uiVars
    \/ \E n \in Nodes, k \in StoreKeys, d \in ReadDefaults :
          /\ GetPropertyCall(n, k, d)
          /\ UNCHANGED uiVars

Spec == Init /\ [][Next]_vars


---------------------------------------------------------------------------
(* Claims on the property store (checked under Spec).                      *)

\* the keys a widget answers from its own fields, not from the store
IsWidgetStateKey(n, key) ==
    /\ n \in Widgets
    /\ \/ key \in {"checked", "validated"}
       \/ m_hwnd[n] /\ key \in {"enabled", "disabled"}

\* the ancestors of n, nearest first
RECURSIVE Ancestors(_)
Ancestors(n) ==
    IF m_parent[n] = NoNode THEN << >>
    ELSE <<m_parent[n]>> \o Ancestors(m_parent[n])

\* the value of the nearest ancestor with a local entry for key, else def
NearestAncestorValue(n, key, def) ==
    LET anc == Ancestors(n)
        defining == {i \in 1..Len(anc) : key \in DOMAIN m_properties[anc[i]]}
    IN  IF defining = {} THEN def
        ELSE m_properties[anc[CHOOSE i \in defining : \A j \in defining : i <= j]][key]

\* C1 as stated: after set(k, v) on a node, get(k, d) on that node returns v
\* for every default d, whatever the ancestors define for k.
C1_SetThenGetReturnsValue ==
    last.op = "SetProperty" =>
        \A d \in StoreDefaults : GetProperty(last.node, last.key, d) = last.val

\* C1 amended: after set(k, v) on a node, get(k, d) returns v for every
\* default d whatever the ancestors define, except for the state keys of a
\* widget (checked, validated and, once it has a window, enabled, disabled):
\* there get returns "true" when v is "true" and "false" otherwise.
C1_SetThenGetExceptWidgetState ==
    last.op = "SetProperty" =>
        \A d \in StoreDefaults :
            GetProperty(last.node, last.key, d) =
                IF IsWidgetStateKey(last.node, last.key)
                THEN BoolText(last.val = "true")
                ELSE last.val

\* a value was set on the widget for a key that the cell's chain resolves
\* to a different value
C1_Witness ==
    /\ last.op = "SetProperty"
    /\ last.node = "wid"
    /\ m_parent["wid"] = "cell"
    /\ ~IsWidgetStateKey("wid", last.key)
    /\ GetProperty("cell", last.key, "") # ""
    /\ GetProperty("cell", last.key, "") # last.val

\* C2 as stated: get(k, d) on a node without a local entry for k returns the
\* value of the nearest ancestor that has one, and d when no ancestor has.
C2_CascadeToNearestAncestor ==
    (last.op = "GetProperty" /\ last.key \notin DOMAIN m_properties[last.node]) =>
        last.res = NearestAncestorValue(last.node, last.key, last.val)

\* what a widget answers for one of its state keys
WidgetStateText(w, key) ==
    CASE key = "checked" -> BoolText(m_checked[w])
      [] key = "validated" -> BoolText(m_validated[w])
      [] key = "enabled" -> BoolText(wndEnabled[w])
      [] key = "disabled" -> BoolText(~wndEnabled[w])

\* the value found on the chain n, parent of n, ... up to the root: the
\* lookup stops at the first node that is a widget asked for a state key or
\* that has a local entry for key
FirstAnswer(n, key, def) ==
    LET chain == <<n>> \o Ancestors(n)
        stops == {i \in 1..Len(chain) :
                     \/ IsWidgetStateKey(chain[i], key)
                     \/ key \in DOMAIN m_properties[chain[i]]}
    IN  IF stops = {} THEN def
        ELSE LET a == chain[CHOOSE i \in stops : \A j \in stops : i <= j]
             IN  IF IsWidgetStateKey(a, key) THEN WidgetStateText(a, key)
                 ELSE m_properties[a][key]

\* C2 amended: get(k, d) on a node without a local entry for k returns the
\* value of the nearest ancestor that has one and d when no ancestor has,
\* except that the first widget the lookup comes to (the node itself or an
\* ancestor such as a panel) answers its state keys "true" or "false" from
\* its own fields, whatever it or the nodes above it have stored.
C2_CascadeExceptWidgetState ==
    (last.op = "GetProperty" /\ last.key \notin DOMAIN m_properties[last.node]) =>
        last.res = FirstAnswer(last.node, last.key, last.val)

\* a cell of the panel's layout read a state key: the panel answered from
\* its field although the value stored on the panel is a different text
C2_WitnessPanel ==
    /\ last.op = "GetProperty"
    /\ last.node = "pcell"
    /\ Ancestors("pcell")[2] = "pan"
    /\ last.key \in {"checked", "validated", "enabled", "disabled"}
    /\ last.key \notin DOMAIN m_properties["play"]
    /\ last.key \in DOMAIN m_properties["pan"]
    /\ last.res = WidgetStateText("pan", last.key)
    /\ last.res # m_properties["pan"][last.key]

\* a cell of the panel's layout read a state key that the panel's layout
\* has a local entry for: the lookup stopped below the panel
C2_WitnessBelowPanel ==
    /\ last.op = "GetProperty"
    /\ last.node = "pcell"
    /\ last.key = "checked"
    /\ "checked" \in DOMAIN m_properties["play"]
    /\ last.res = m_properties["play"]["checked"]
    /\ last.res # WidgetStateText("pan", "checked")

\* a panel without window was asked for enabled: the key is no state key
\* yet and the lookup went on to the caller's default
C2_WitnessNoWindow ==
    /\ last.op = "GetProperty"
    /\ last.node = "play"
    /\ ~m_hwnd["pan"]
    /\ last.key = "enabled"
    /\ last.val = "dflt"
    /\ last.res = "dflt"

\* the widget has no entry, an ancestor below the controller has one that
\* hides the controller's default style, and get returned it
C2_Witness ==
    /\ last.op = "GetProperty"
    /\ last.node = "wid"
    /\ last.key = "color"
    /\ "color" \notin DOMAIN m_properties["wid"]
    /\ \E a \in {"cell", "lay", "con"} :
          /\ "color" \in DOMAIN m_properties[a]
          /\ m_properties[a]["color"] # m_properties["ctl"]["color"]
          /\ last.res = m_properties[a]["color"]
    /\ m_parent["wid"] = "cell"

\* no node defines the key and get returned the caller's default
C2_WitnessDefault ==
    /\ last.op = "GetProperty"
    /\ last.node = "cell"
    /\ m_parent["cell"] = "lay"
    /\ last.val = "dflt"
    /\ last.res = "dflt"


---------------------------------------------------------------------------
(* SpecStyle: styles are resolved on a widget that sits in a cell of the   *)
(* root layout, below the controller's default styles; the application     *)
(* writes state- and level-qualified keys on the widget.                   *)

StyleProp == "background-color"
StyleClassIds == {"", "StaticText"}
StyleVariants == {"", "danger"}
StyleStates == {":disabled", ":hover", ":selected", ":active", ""}
StyleKeys ==
    {lvl \o StyleProp \o st : lvl \in {"", "StaticText:", "StaticText:danger:"},
                              st \in StyleStates}
StyleValues == {"", "#111111"}
StyleDefault == "dflt"

\* the state after CreateRootLayout, GetCell and AddWidget
InitStyle ==
    /\ m_parent = [n \in Nodes |->
                      CASE n = "ctl" -> NoNode [] n = "con" -> "ctl"
                        [] n = "lay" -> "con" [] n = "cell" -> "lay"
                        [] n = "wid" -> "cell" [] OTHER -> NoNode]
    /\ m_properties = Constructed
    /\ m_checked = [w \in Widgets |-> FALSE]
    /\ m_validated = [w \in Widgets |-> TRUE]
    /\ m_hwnd = [w \in Widgets |-> TRUE]
    /\ wndEnabled = [w \in Widgets |-> TRUE]
    /\ registry = EmptyMap
    /\ last = NoCall
    /\ calls = NoCalls
    /\ InitUi

NextStyle ==
    \/ \E k \in StyleKeys, v \in StyleValues :
          /\ Cardinality(Entries \cup {<<"wid", k>>}) <= MaxStyleSets
          /\ SetPropertyCall("wid", k, v)
          /\ UNCHANGED calls
          /\ UNCHANGED uiVars
    \/ \E cid \in StyleClassIds, var \in StyleVariants,
          sel \in BOOLEAN, en \in BOOLEAN, hov \in BOOLEAN, act \in BOOLEAN :
          /\ GetStyleCall("wid", StyleProp, StyleDefault, cid, var, sel, en, hov, act)
          /\ UNCHANGED uiVars

SpecStyle == InitStyle /\ [][NextStyle]_vars

---------------------------------------------------------------------------
(* Claims on the style cascade (checked under SpecStyle).                  *)

\* the base keys of the levels a request probes, most specific first
LevelKeys(prop, classid, variant) ==
    (IF variant # "" THEN <<classid \o ":" \o variant \o ":" \o prop>> ELSE << >>)
    \o (IF classid # "" THEN <<classid \o ":" \o prop>> ELSE << >>)
    \o <<prop>>

\* the state suffixes a request considers, in tie-break order
StateSuffixes(selected, enabled, hovered, active) ==
    (IF ~enabled THEN <<":disabled">> ELSE << >>)
    \o (IF hovered THEN <<":hover">> ELSE << >>)
    \o (IF selected THEN <<":selected">> ELSE << >>)
    \o (IF active THEN <<":active">> ELSE << >>)
    \o <<"">>

\* the first element of a sequence of texts that is not empty, "" if none
FirstNonEmpty(texts) ==
    LET idx == {i \in 1..Len(texts) : texts[i] # ""}
    IN  IF idx = {} THEN "" ELSE texts[CHOOSE i \in idx : \A j \in idx : i <= j]

LastLevels == LevelKeys(last.key, last.cid, last.var)
LastSuffixes == StateSuffixes(last.sel, last.en, last.hov, last.act)
LastProbe(base) == TryResolveState(CurW, last.node, base, last.sel, last.en, last.hov, last.act)

\* C3: GetStyle returns the state-suffix probe of the first level (variant
\* level if variant is non-empty, element level if classid is non-empty,
\* bare property) whose probe is non-empty, and the default if none is.
C3_LevelPrecedence ==
    last.op = "GetStyle" =>
        LET probes == [i \in 1..Len(LastLevels) |-> LastProbe(LastLevels[i])]
        IN  last.res = IF FirstNonEmpty(probes) # "" THEN FirstNonEmpty(probes)
                       ELSE last.val

\* all three levels resolve to different non-empty values and the variant
\* level's value was returned
C3_Witness ==
    /\ last.op = "GetStyle"
    /\ Len(LastLevels) = 3
    /\ \A i \in 1..3 : LastProbe(LastLevels[i]) # ""
    /\ LastProbe(LastLevels[1]) # LastProbe(LastLevels[2])
    /\ LastProbe(LastLevels[2]) # LastProbe(LastLevels[3])
    /\ last.res = LastProbe(LastLevels[1])

\* no level resolves and the default was returned
C3_WitnessDefault ==
    /\ last.op = "GetStyle"
    /\ \A i \in 1..Len(LastLevels) : LastProbe(LastLevels[i]) = ""
    /\ last.res = StyleDefault

\* C4: for each base key the state-suffix probe returns the first non-empty
\* value in the order base:disabled (if not enabled), base:hover (if
\* hovered), base:selected (if selected), base:active (if active), base.
C4_StateTieBreak ==
    last.op = "GetStyle" =>
        \A i \in 1..Len(LastLevels) :
            LastProbe(LastLevels[i]) =
                FirstNonEmpty([j \in 1..Len(LastSuffixes) |->
                    GetProperty(last.node, LastLevels[i] \o LastSuffixes[j], "")])

\* hover and selected are both set, both keys of the bare property are
\* defined with different values, and the :hover value was returned
C4_Witness ==
    /\ last.op = "GetStyle"
    /\ last.hov /\ last.sel /\ last.en
    /\ last.cid = "" /\ last.var = ""
    /\ GetProperty(last.node, last.key \o ":hover", "") # ""
    /\ GetProperty(last.node, last.key \o ":selected", "") # ""
    /\ GetProperty(last.node, last.key \o ":hover", "")
         # GetProperty(last.node, last.key \o ":selected", "")
    /\ last.res = GetProperty(last.node, last.key \o ":hover", "")

\* the probed keys of the last request, level by level, with the suffix of
\* each, in the order the resolver tries them
LastCandidates ==
    [i \in 1..(Len(LastLevels) * Len(LastSuffixes)) |->
        LET lv == ((i - 1) \div Len(LastSuffixes)) + 1
            sx == ((i - 1) % Len(LastSuffixes)) + 1
        IN  [level |-> lv, suffix |-> LastSuffixes[sx],
             value |-> GetProperty(last.node, LastLevels[lv] \o LastSuffixes[sx], "")]]

LastFound == {i \in 1..Len(LastCandidates) : LastCandidates[i].value # ""}
LastWinner == LastCandidates[CHOOSE i \in LastFound : \A j \in LastFound : i <= j]

\* C5 as stated: with enabled = false, if a :disabled key of the requested
\* property is non-empty at any level, the key that supplies the result is
\* never a :hover or :selected key.
C5_DisabledWinsAtAnyLevel ==
    (/\ last.op = "GetStyle"
     /\ ~last.en
     /\ \E i \in 1..Len(LastLevels) :
           GetProperty(last.node, LastLevels[i] \o ":disabled", "") # "") =>
        /\ last.res = LastWinner.value
        /\ LastWinner.suffix \notin {":hover", ":selected"}

\* C5 amended: with enabled = false, if the :disabled key is non-empty at
\* the most specific level at which any probed key is non-empty, the result
\* is that :disabled value.
C5_DisabledWinsWithinLevel ==
    (/\ last.op = "GetStyle"
     /\ ~last.en
     /\ LastFound # {}
     /\ GetProperty(last.node, LastLevels[LastWinner.level] \o ":disabled", "") # "") =>
        /\ LastWinner.suffix = ":disabled"
        /\ last.res = GetProperty(last.node, LastLevels[LastWinner.level] \o ":disabled", "")

\* a disabled and hovered request, the winning level has both its :disabled
\* and its :hover key defined with different values, :disabled was returned
C5_Witness ==
    /\ last.op = "GetStyle"
    /\ ~last.en /\ last.hov
    /\ LastFound # {}
    /\ LET base == LastLevels[LastWinner.level]
       IN  /\ GetProperty(last.node, base \o ":disabled", "") # ""
           /\ GetProperty(last.node, base \o ":hover", "") # ""
           /\ GetProperty(last.node, base \o ":hover", "")
                # GetProperty(last.node, base \o ":disabled", "")
           /\ last.res = GetProperty(last.node, base \o ":disabled", "")

\* the store with the local entry of node n for key removed
WithoutEntry(W, n, key) ==
    [W EXCEPT !.props[n] = [k \in DOMAIN @ \ {key} |-> @[k]]]

\* the local entries that hold the empty string
EmptyEntries == {e \in Entries : m_properties[e[1]][e[2]] = ""}

LastStyleIn(W) ==
    GetStyleIn(W, last.node, last.key, last.val, last.cid, last.var,
               last.sel, last.en, last.hov, last.act)

\* C6 as stated: a store in which a node holds key k with value "" and the
\* store without that entry give the same result for every request.
C6_EmptyIsAbsent ==
    last.op = "GetStyle" =>
        \A e \in EmptyEntries : LastStyleIn(WithoutEntry(CurW, e[1], e[2])) = last.res

\* C6 amended: they give the same result whenever the lookup of k through
\* the node's parent chain yields no non-empty value (an empty local value
\* hides a non-empty value of an ancestor, an absent key does not).
C6_EmptyIsAbsentUnlessInherited ==
    last.op = "GetStyle" =>
        \A e \in EmptyEntries :
            (m_parent[e[1]] = NoNode \/ GetProperty(m_parent[e[1]], e[2], "") = "") =>
                LastStyleIn(WithoutEntry(CurW, e[1], e[2])) = last.res

\* the widget holds "" for a state key that no ancestor defines, the
\* request has that state set, and the result came from a later candidate
C6_Witness ==
    /\ last.op = "GetStyle"
    /\ last.sel /\ last.en /\ ~last.hov /\ ~last.act
    /\ last.cid = "" /\ last.var = ""
    /\ <<"wid", last.key \o ":selected">> \in EmptyEntries
    /\ GetProperty("cell", last.key \o ":selected", "") = ""
    /\ last.res = GetProperty("wid", last.key, "")
    /\ last.res # ""


---------------------------------------------------------------------------
(* The stylesheet manager.                                                 *)

\* LoadCSS, step 1, from position i on: the text up to the next comment is
\* copied, a closed comment becomes one blank, an unclosed comment ends the
\* text
RECURSIVE StripComments(_, _)
StripComments(css, i) ==
    LET openComment == FindText(css, "/*", i)
    IN  IF openComment = 0 THEN SubSeq(css, i, Len(css))
        ELSE LET closeComment == FindText(css, "*/", openComment + 2)
             IN  SubSeq(css, i, openComment - 1)
                 \o (IF closeComment # 0
                     THEN " " \o StripComments(css, closeComment + 2)
                     ELSE "")

\* LoadCSS, the declarations of one block: only "name:value" pieces count
RECURSIVE ParseDecls(_, _)
ParseDecls(rawProps, props) ==
    IF rawProps = << >> THEN props
    ELSE LET kv == Split(Head(rawProps), ":")
         IN  ParseDecls(Tail(rawProps),
                        IF Len(kv) = 2 THEN Put(props, kv[1], kv[2]) ELSE props)

\* _registry[sel][k] = v for every declaration of the block
MergeRuleMutReplace(reg, sel, props) ==
    IF DOMAIN props = {} THEN reg ELSE Put(reg, sel, props)

MergeRule(reg, sel, props) ==
    IF DOMAIN props = {} THEN reg
    ELSE LET old == IF sel \in DOMAIN reg THEN reg[sel] ELSE EmptyMap
         IN  Put(reg, sel, [k \in DOMAIN old \cup DOMAIN props |->
                               IF k \in DOMAIN props THEN props[k] ELSE old[k]])

\* LoadCSS, the selectors of one block: a leading dot is removed
RECURSIVE MergeSelectors(_, _, _)
MergeSelectors(reg, selectors, props) ==
    IF selectors = << >> THEN reg
    ELSE LET raw == Head(selectors)
             sel == IF Len(raw) > 0 /\ Head(raw) = "." THEN Tail(raw) ELSE raw
         IN  MergeSelectors(IF sel = "" THEN reg ELSE MergeRule(reg, sel, props),
                            Tail(selectors), props)

\* LoadCSS, step 2, the loop over the { } blocks from position pos on: the
\* selectors and the declarations of every block, in text order
RECURSIVE ParseBlocks(_, _)
ParseBlocks(cleanContent, pos) ==
    IF pos > Len(cleanContent) THEN << >>
    ELSE LET openBrace == FindChar(cleanContent, "{", pos)
             closeBrace == IF openBrace = 0 THEN 0
                           ELSE FindChar(cleanContent, "}", openBrace)
         IN  IF openBrace = 0 \/ closeBrace = 0 THEN << >>
             ELSE LET selectorStr == SubSeq(cleanContent, pos, openBrace - 1)
                      bodyStr == SubSeq(cleanContent, openBrace + 1, closeBrace - 1)
                  IN  << [selectors |-> Split(selectorStr, ","),
                          props |-> ParseDecls(Split(bodyStr, ";"), EmptyMap)] >>
                      \o ParseBlocks(cleanContent, closeBrace + 1)

\* LoadCSS, step 2: every block is merged into the registry as it is parsed
RECURSIVE MergeBlocks(_, _)
MergeBlocks(reg, blocks) ==
    IF blocks = << >> THEN reg
    ELSE MergeBlocks(MergeSelectors(reg, Head(blocks).selectors, Head(blocks).props),
                     Tail(blocks))

\* StyleManager::LoadCSS
LoadCSS(reg, cssContent) ==
    MergeBlocks(reg, ParseBlocks(StripComments(cssContent, 1), 1))

\* the tokens of the node's class property (own or inherited)
ClassTokens(W, n) == Split(NodeGetProperty(W, n, "class", ""), " ")

\* finalClassStr: the classes of the set, in set order, separated by blanks
RECURSIVE JoinClasses(_)
JoinClasses(classes) ==
    IF classes = << >> THEN ""
    ELSE IF Len(classes) = 1 THEN classes[1]
    ELSE classes[1] \o " " \o JoinClasses(Tail(classes))

PseudoStates == <<"hover", "active", "checked", "selected", "focus", "disabled">>

\* the SetProperty calls ApplyClassesImpl makes for one registry entry, its
\* properties in map order, with the key suffix of the pseudo state
EntryWrites(reg, selector, suffix) ==
    IF selector \notin DOMAIN reg THEN << >>
    ELSE LET keys == SortedSeq(DOMAIN reg[selector])
         IN  [i \in 1..Len(keys) |-> <<keys[i] \o suffix, reg[selector][keys[i]]>>]

RECURSIVE PseudoWrites(_, _, _)
PseudoWritesMutNoSuffix(reg, cls, states) ==
    IF states = << >> THEN << >>
    ELSE EntryWrites(reg, cls \o ":" \o Head(states), "")
         \o PseudoWrites(reg, cls, Tail(states))

PseudoWrites(reg, cls, states) ==
    IF states = << >> THEN << >>
    ELSE EntryWrites(reg, cls \o ":" \o Head(states), ":" \o Head(states))
         \o PseudoWrites(reg, cls, Tail(states))

\* the SetProperty calls of ApplyClassesImpl for the classes, in set order
RECURSIVE ClassWrites(_, _)
ClassWrites(reg, classes) ==
    IF classes = << >> THEN << >>
    ELSE EntryWrites(reg, Head(classes), "")
         \o PseudoWrites(reg, Head(classes), PseudoStates)
         \o ClassWrites(reg, Tail(classes))

RECURSIVE ApplyWrites(_, _, _)
ApplyWrites(W, n, writes) ==
    IF writes = << >> THEN W
    ELSE ApplyWrites(NodeSetProperty(W, n, Head(writes)[1], Head(writes)[2]),
                     n, Tail(writes))

\* StyleManager::ApplyClassesImpl
ApplyClassesImpl(W, reg, n, classes) ==
    ApplyWrites(W, n, ClassWrites(reg, SortedSeq(classes)))

\* StyleManager::AddClass
AddClassMutAlways(W, reg, n, classNames) ==
    LET classes == Range(ClassTokens(W, n)) \cup Range(Split(classNames, " "))
    IN  ApplyClassesImpl(
            NodeSetProperty(W, n, "class", JoinClasses(SortedSeq(classes))),
            reg, n, classes)

AddClassMutNoApply(W, reg, n, classNames) ==
    LET existing == Range(ClassTokens(W, n))
        newTokens == Range(Split(classNames, " "))
        changed == \E t \in newTokens : t \notin existing
        classes == existing \cup newTokens
    IN  IF changed
        THEN NodeSetProperty(W, n, "class", JoinClasses(SortedSeq(classes)))
        ELSE W

AddClass(W, reg, n, classNames) ==
    LET existing == Range(ClassTokens(W, n))
        newTokens == Range(Split(classNames, " "))
        changed == \E t \in newTokens : t \notin existing
        classes == existing \cup newTokens
    IN  IF changed
        THEN ApplyClassesImpl(
                 NodeSetProperty(W, n, "class", JoinClasses(SortedSeq(classes))),
                 reg, n, classes)
        ELSE W

\* StyleManager::RemoveClass
RemoveClassMutClearKeys(W, reg, n, classNames) ==
    LET existing == Range(ClassTokens(W, n))
        removeTokens == Range(Split(classNames, " "))
        changed == \E t \in removeTokens : t \in existing
        classes == existing \ removeTokens
        kept == [W EXCEPT !.props[n] = [k \in DOMAIN @ \cap {"class"} |-> @[k]]]
    IN  IF changed
        THEN ApplyClassesImpl(
                 NodeSetProperty(kept, n, "class", JoinClasses(SortedSeq(classes))),
                 reg, n, classes)
        ELSE W

RemoveClass(W, reg, n, classNames) ==
    LET existing == Range(ClassTokens(W, n))
        removeTokens == Range(Split(classNames, " "))
        changed == \E t \in removeTokens : t \in existing
        classes == existing \ removeTokens
    IN  IF changed
        THEN ApplyClassesImpl(
                 NodeSetProperty(W, n, "class", JoinClasses(SortedSeq(classes))),
                 reg, n, classes)
        ELSE W

\* StyleManager::HasClass
HasClass(W, n, className) == className \in Range(ClassTokens(W, n))

\* StyleManager::ToggleClass
ToggleClass(W, reg, n, className) ==
    IF HasClass(W, n, className) THEN RemoveClass(W, reg, n, className)
    ELSE AddClass(W, reg, n, className)

---------------------------------------------------------------------------
(* Stylesheet texts.  A sheet is a list of rules, each a list of selectors *)
(* and a list of declarations, written out in one of two layouts.          *)

RECURSIVE JoinWith(_, _)
JoinWith(texts, sep) ==
    IF texts = << >> THEN ""
    ELSE IF Len(texts) = 1 THEN texts[1]
    ELSE texts[1] \o sep \o JoinWith(Tail(texts), sep)

\* ".btn{color:#fff} .btn:hover{color:#000}"
RenderCompact(rules) ==
    JoinWith([i \in 1..Len(rules) |->
                 JoinWith(rules[i].sels, ",") \o "{"
                 \o JoinWith([j \in 1..Len(rules[i].decls) |->
                        rules[i].decls[j][1] \o ":" \o rules[i].decls[j][2]], ";")
                 \o "}"], " ")

\* one selector and one declaration per line, blanks around the separators,
\* a comment in front of every rule
RenderSpaced(rules) ==
    JoinWith([i \in 1..Len(rules) |->
                 "/* rule {old:1} */\n"
                 \o JoinWith(rules[i].sels, " ,\n") \o " {\n"
                 \o JoinWith([j \in 1..Len(rules[i].decls) |->
                        "\t" \o rules[i].decls[j][1] \o " : "
                        \o rules[i].decls[j][2] \o " ;\n"], "")
                 \o "}\n"], "")

Render(sheet) ==
    IF sheet.layout = "compact" THEN RenderCompact(sheet.rules)
    ELSE RenderSpaced(sheet.rules)

SheetButton ==
    [layout |-> "compact",
     rules |-> << [sels |-> <<".btn">>, decls |-> << <<"color", "#fff">> >>],
                  [sels |-> <<".btn:hover">>, decls |-> << <<"color", "#000">> >>] >>]

\* a sheet with a selector list, a property declared twice in one block and
\* rules that style "checked"
SheetCard ==
    [layout |-> "spaced",
     rules |-> << [sels |-> <<".card", "btn">>,
                   decls |-> << <<"color", "#222">>, <<"width", "80">> >>],
                  [sels |-> <<".card:hover">>, decls |-> << <<"color", "#333">> >>],
                  [sels |-> <<".btn">>,
                   decls |-> << <<"checked", "on">>, <<"checked", "yes">> >>],
                  [sels |-> <<".btn:hover">>, decls |-> << <<"checked", "off">> >>] >>]

Sheets == {SheetButton, SheetCard}

\* the text of every sheet and the blocks LoadCSS finds in it
SheetText == [sheet \in Sheets |-> Render(sheet)]
SheetBlocks == [sheet \in Sheets |-> ParseBlocks(StripComments(SheetText[sheet], 1), 1)]

---------------------------------------------------------------------------
(* SpecCss: stylesheets are loaded, classes are added to and removed from  *)
(* the widget, the application overrides a property, styles are resolved.  *)

CssNodes == {"cell", "wid"}
CssWidgets == {"wid"}
CssClasses == {"btn", "card"}
CssClassNames == {"btn", "card", "btn card"}
CssSetKeys == {"color"}
CssSetValues == {"#999"}
CssProps == {"color", "checked"}

SetW(W) ==
    /\ m_properties' = W.props
    /\ m_checked' = W.checked
    /\ m_validated' = W.validated
    /\ wndEnabled' = W.enabled

\* StyleManager::LoadCSS(cssContent)
LoadCSSCall(sheet) ==
    /\ calls.loads < MaxLoads
    \* LoadCSS(registry, SheetText[sheet])
    /\ registry' = MergeBlocks(registry, SheetBlocks[sheet])
    /\ last' = [NoCall EXCEPT !.op = "LoadCSS", !.val = SheetText[sheet],
                              !.sheet = sheet.rules]
    /\ calls' = [calls EXCEPT !.loads = @ + 1]
    /\ UNCHANGED <<m_parent, m_properties, m_checked, m_validated, m_hwnd, wndEnabled>>

\* StyleManager::AddClass(node, classNames)
AddClassCall(n, classNames) ==
    /\ calls.classops < MaxClassOps
    /\ LET W2 == AddClass(CurW, registry, n, classNames)
       IN  /\ SetW(W2)
           \* res: whether the call changed the class set of the node
           /\ last' = [NoCall EXCEPT !.op = "AddClass", !.node = n,
                                     !.val = classNames,
                                     !.res = BoolText(Range(ClassTokens(W2, n))
                                                      # Range(ClassTokens(CurW, n)))]
    /\ calls' = [calls EXCEPT !.classops = @ + 1]
    /\ UNCHANGED <<m_parent, m_hwnd, registry>>

\* StyleManager::RemoveClass(node, classNames)
RemoveClassCall(n, classNames) ==
    /\ calls.classops < MaxClassOps
    /\ LET W2 == RemoveClass(CurW, registry, n, classNames)
       IN  /\ SetW(W2)
           \* res: whether the call changed the class set of the node
           /\ last' = [NoCall EXCEPT !.op = "RemoveClass", !.node = n,
                                     !.val = classNames,
                                     !.res = BoolText(Range(ClassTokens(W2, n))
                                                      # Range(ClassTokens(CurW, n)))]
    /\ calls' = [calls EXCEPT !.classops = @ + 1]
    /\ UNCHANGED <<m_parent, m_hwnd, registry>>

\* StyleManager::ToggleClass(node, className)
ToggleClassCall(n, className) ==
    /\ calls.classops < MaxClassOps
    /\ SetW(ToggleClass(CurW, registry, n, className))
    /\ last' = [NoCall EXCEPT !.op = "ToggleClass", !.node = n, !.val = className]
    /\ calls' = [calls EXCEPT !.classops = @ + 1]
    /\ UNCHANGED <<m_parent, m_hwnd, registry>>

\* StyleManager::HasClass(node, className)
HasClassCall(n, className) ==
    /\ last' = [NoCall EXCEPT !.op = "HasClass", !.node = n, !.val = className,
                              !.res = BoolText(HasClass(CurW, n, className))]
    /\ UNCHANGED <<m_parent, m_properties, m_checked, m_validated, m_hwnd,
                   wndEnabled, registry, calls>>

InitCss == InitStyle

NextCss ==
    \/ \E sheet \in Sheets :
          /\ LoadCSSCall(sheet)
          /\ UNCHANGED uiVars
    \/ \E n \in CssNodes, c \in CssClassNames :
          /\ (n \in CssWidgets \/ c \in CssClasses) /\ AddClassCall(n, c)
          /\ UNCHANGED uiVars
    \/ \E n \in CssNodes, c \in CssClassNames :
          /\ (n \in CssWidgets \/ c \in CssClasses) /\ RemoveClassCall(n, c)
          /\ UNCHANGED uiVars
    \/ \E n \in CssWidgets, c \in CssClasses :
          /\ ToggleClassCall(n, c)
          /\ UNCHANGED uiVars
    \/ \E n \in CssWidgets, c \in CssClasses :
          /\ HasClassCall(n, c)
          /\ UNCHANGED uiVars
    \/ \E n \in CssWidgets, k \in CssSetKeys, v \in CssSetValues :
          /\ calls.sets < MaxCssSets
          /\ SetPropertyCall(n, k, v)
          /\ calls' = [calls EXCEPT !.sets = @ + 1]
          /\ UNCHANGED uiVars
    \/ \E n \in CssWidgets, p \in CssProps, hov \in BOOLEAN :
          /\ GetStyleCall(n, p, StyleDefault, "", "", FALSE, TRUE, hov, FALSE)
          /\ UNCHANGED uiVars

SpecCss == InitCss /\ [][NextCss]_vars


---------------------------------------------------------------------------
(* Claims on the style registry and the classes (checked under SpecCss).   *)

\* the node's store and widget fields after the step
NextW == [props |-> m_properties', checked |-> m_checked',
          validated |-> m_validated', enabled |-> wndEnabled']

\* resolving p on n after the step: enabled, not selected, not active, no
\* element and no variant
ResolveAfter(n, p, hovered) ==
    GetStyleIn(NextW, n, p, StyleDefault, "", "", FALSE, TRUE, hovered, FALSE)

\* the registry has a base rule of c and a rule c:hover that both declare p
HoverRule(c, p) ==
    /\ c \in DOMAIN registry
    /\ p \in DOMAIN registry[c]
    /\ (c \o ":hover") \in DOMAIN registry
    /\ p \in DOMAIN registry[c \o ":hover"]

\* the step is addClass(n, c) on a node whose class set does not hold c
AddsClass(n, c) ==
    /\ last'.op = "AddClass"
    /\ last'.node = n
    /\ last'.val = c
    /\ c \notin Range(ClassTokens(CurW, n))

\* a class of n's class set that is applied after c (the classes are applied
\* in the order of their names) declares p in its base or its hover rule
LaterClassDeclares(n, c, p) ==
    \E d \in Range(ClassTokens(CurW, n)) :
        /\ StrLess(c, d)
        /\ \/ d \in DOMAIN registry /\ p \in DOMAIN registry[d]
           \/ /\ (d \o ":hover") \in DOMAIN registry
              /\ p \in DOMAIN registry[d \o ":hover"]

\* C7 as stated: when the loaded stylesheets have a base rule of class c that
\* declares p: v and a rule c:hover that declares p: v2, then after
\* addClass(node, c) on a node without that class, resolving p on the node
\* (enabled, not selected, not active, no element or variant keys) returns v2
\* with hovered = true and v with hovered = false.
C7_HoverRuleAfterAddClass ==
    [][\A n \in CssNodes : \A c \in DOMAIN registry : \A p \in DOMAIN registry[c] :
          (AddsClass(n, c) /\ HoverRule(c, p)) =>
              /\ ResolveAfter(n, p, TRUE) = registry[c \o ":hover"][p]
              /\ ResolveAfter(n, p, FALSE) = registry[c][p]]_vars

\* C7 amended: the same, provided that no class already in the node's class
\* set that is applied after c declares p (in its base or its hover rule) and
\* that p is not a key the widget answers from its own state (checked,
\* validated and, once it has a window, enabled, disabled).
C7_HoverRuleUnlessLaterClass ==
    [][\A n \in CssNodes : \A c \in DOMAIN registry : \A p \in DOMAIN registry[c] :
          (/\ AddsClass(n, c)
           /\ HoverRule(c, p)
           /\ ~LaterClassDeclares(n, c, p)
           /\ ~IsWidgetStateKey(n, p)) =>
              /\ ResolveAfter(n, p, TRUE) = registry[c \o ":hover"][p]
              /\ ResolveAfter(n, p, FALSE) = registry[c][p]]_vars

\* card was added to a widget that already had btn, both classes declare
\* color with a hover rule, and color resolves to the values of card
C7_Witness ==
    /\ last.op = "AddClass"
    /\ last.node = "wid"
    /\ last.val = "card"
    /\ last.res = "true"
    /\ "btn" \in Range(ClassTokens(CurW, "wid"))
    /\ HoverRule("btn", "color")
    /\ HoverRule("card", "color")
    /\ registry["card"]["color"] # registry["card:hover"]["color"]
    /\ GetStyleIn(CurW, "wid", "color", StyleDefault, "", "", FALSE, TRUE, TRUE, FALSE)
           = registry["card:hover"]["color"]
    /\ GetStyleIn(CurW, "wid", "color", StyleDefault, "", "", FALSE, TRUE, FALSE, FALSE)
           = registry["card"]["color"]


\* a selector of a stylesheet without its leading class marker
SelectorName(raw) == IF Len(raw) > 0 /\ Head(raw) = "." THEN Tail(raw) ELSE raw

\* the places <<rule, declaration>> of the sheet that declare prop for sel
Declarations(rules, sel, prop) ==
    {x \in UNION {{i} \X (1..Len(rules[i].decls)) : i \in 1..Len(rules)} :
        /\ \E j \in 1..Len(rules[x[1]].sels) : SelectorName(rules[x[1]].sels[j]) = sel
        /\ rules[x[1]].decls[x[2]][1] = prop}

\* the value of the last declaration of prop for sel in the sheet
LastDeclared(rules, sel, prop) ==
    LET D == Declarations(rules, sel, prop)
        x == CHOOSE y \in D : \A z \in D :
                 z[1] < y[1] \/ (z[1] = y[1] /\ z[2] <= y[2])
    IN  rules[x[1]].decls[x[2]][2]

\* the selectors and the properties the sheet names
SheetSelectors(rules) ==
    UNION {{SelectorName(rules[i].sels[j]) : j \in 1..Len(rules[i].sels)} :
              i \in 1..Len(rules)}

SheetProps(rules) ==
    UNION {{rules[i].decls[j][1] : j \in 1..Len(rules[i].decls)} :
              i \in 1..Len(rules)}

Registered(reg, sel, prop) == sel \in DOMAIN reg /\ prop \in DOMAIN reg[sel]

\* C8: every loadStylesheet call leaves, for each selector (leading marker
\* stripped), every property the sheet declares for it at the value of its
\* last declaration in the sheet, and every property that an earlier load
\* declared and this sheet does not redeclare at the value it had; nothing
\* else enters the registry.  Over a sequence of loads: each property ever
\* declared for a selector holds the value of its most recent declaration.
C8_LastValueWins ==
    [][last'.op = "LoadCSS" =>
          LET rules == last'.sheet
              sels == DOMAIN registry \cup DOMAIN registry'
                      \cup SheetSelectors(rules)
              props == UNION {DOMAIN registry[t] : t \in DOMAIN registry}
                       \cup UNION {DOMAIN registry'[t] : t \in DOMAIN registry'}
                       \cup SheetProps(rules)
          IN  \A sel \in sels, prop \in props :
                  IF Declarations(rules, sel, prop) # {}
                  THEN /\ Registered(registry', sel, prop)
                       /\ registry'[sel][prop] = LastDeclared(rules, sel, prop)
                  ELSE IF Registered(registry, sel, prop)
                  THEN /\ Registered(registry', sel, prop)
                       /\ registry'[sel][prop] = registry[sel][prop]
                  ELSE ~Registered(registry', sel, prop)]_vars

\* the button sheet was loaded after the card sheet: btn has the color of the
\* later sheet, the width only the earlier sheet declares, and the value of
\* the second of the two declarations of checked
C8_Witness ==
    /\ last.op = "LoadCSS"
    /\ last.sheet = SheetButton.rules
    /\ Registered(registry, "btn", "color")
    /\ registry["btn"]["color"] = "#fff"
    /\ Registered(registry, "btn", "width")
    /\ registry["btn"]["width"] = "80"
    /\ Registered(registry, "btn", "checked")
    /\ registry["btn"]["checked"] = "yes"

\* C9: addClass(node, classNames) with every token of classNames already in
\* the node's class set leaves the node's store unchanged: no key is written,
\* also not a key that was overridden after the classes were applied.
C9_AddClassUnchangedSet ==
    [][\A n \in CssNodes :
          (/\ last'.op = "AddClass"
           /\ last'.node = n
           /\ Range(Split(last'.val, " ")) \subseteq Range(ClassTokens(CurW, n))) =>
              m_properties'[n] = m_properties[n]]_vars

\* btn was added again to a widget that has it and whose color was overridden
\* after the first addClass: the override is still there
C9_Witness ==
    /\ last.op = "AddClass"
    /\ last.node = "wid"
    /\ last.val = "btn"
    /\ last.res = "false"
    /\ "class" \in DOMAIN m_properties["wid"]
    /\ "btn" \in Range(ClassTokens(CurW, "wid"))
    /\ Registered(registry, "btn", "color")
    /\ "color:hover" \in DOMAIN m_properties["wid"]
    /\ "color" \in DOMAIN m_properties["wid"]
    /\ m_properties["wid"]["color"] = "#999"
    /\ registry["btn"]["color"] # "#999"

\* the keys applyClasses writes for the classes: the properties of their base
\* rules and the properties of their state rules under prop:state
KeysOfClasses(classes) ==
    UNION {{p : p \in IF d \in DOMAIN registry THEN DOMAIN registry[d] ELSE {}}
           \cup UNION {{p \o ":" \o PseudoStates[i] :
                           p \in IF (d \o ":" \o PseudoStates[i]) \in DOMAIN registry
                                 THEN DOMAIN registry[d \o ":" \o PseudoStates[i]]
                                 ELSE {}} : i \in 1..Len(PseudoStates)}
           : d \in classes}

\* C10: removeClass(node, c) takes c (and only c) out of the node's class
\* set and deletes no key of the node's store; every key other than class
\* that no remaining class writes keeps its value, so what c wrote (base and
\* prop:state keys) stays as c wrote it; when c was in the class set, the
\* properties of the remaining classes are applied again.
C10_RemoveClassDeletesNoKey ==
    [][\A n \in CssNodes :
          (last'.op = "RemoveClass" /\ last'.node = n) =>
              LET removed == Range(Split(last'.val, " "))
                  before == Range(ClassTokens(CurW, n))
                  remaining == Range(ClassTokens(NextW, n))
              IN  /\ remaining = before \ removed
                  /\ DOMAIN m_properties[n] \subseteq DOMAIN m_properties'[n]
                  /\ \A k \in DOMAIN m_properties[n] \ ({"class"} \cup KeysOfClasses(remaining)) :
                         m_properties'[n][k] = m_properties[n][k]
                  /\ (removed \cap before # {}) =>
                         \A d \in remaining \cap DOMAIN registry : \A p \in DOMAIN registry[d] :
                             /\ p \in DOMAIN m_properties'[n]
                             /\ \E e \in remaining :
                                    /\ Registered(registry, e, p)
                                    /\ m_properties'[n][p] = registry[e][p]]_vars

\* btn was removed from a widget that keeps card: the keys only btn wrote
\* are still there with the values btn wrote, the color is that of card
C10_Witness ==
    /\ last.op = "RemoveClass"
    /\ last.node = "wid"
    /\ last.val = "btn"
    /\ last.res = "true"
    /\ Range(ClassTokens(CurW, "wid")) = {"card"}
    /\ Registered(registry, "btn", "checked")
    /\ Registered(registry, "btn:hover", "checked")
    /\ Registered(registry, "card", "color")
    /\ "checked" \in DOMAIN m_properties["wid"]
    /\ m_properties["wid"]["checked"] = registry["btn"]["checked"]
    /\ "checked:hover" \in DOMAIN m_properties["wid"]
    /\ m_properties["wid"]["checked:hover"] = registry["btn:hover"]["checked"]
    /\ m_properties["wid"]["color"] = registry["card"]["color"]

---------------------------------------------------------------------------
(* LayoutImpl: the track solver, collapse and restore, cell lookup.        *)

\* std::max
Max(a, b) == IF a >= b THEN a ELSE b

\* the indices of a track vector, in order
TrackIds(dims) == DOMAIN dims

\* the sum of f over the indices below n
RECURSIVE SumBelow(_, _)
SumBelow(f, n) == IF n <= 0 THEN 0 ELSE f[n - 1] + SumBelow(f, n - 1)

\* minPx of the solve lambda: the resolved minimum of a track
MinPx(d, total) ==
    IF d.min.unit = "Percent" THEN PercentOf(total, d.min.value)
    ELSE Scale(d.min.value)

\* the first loop of the solve lambda: the size of a track that is not Fill
\* (cap is what GetSystemMetricsForDpi(SM_CYCAPTION) answers); a Fill track
\* gets 0 there
AbsoluteActual(d, total, cap) ==
    CASE d.size.unit = "Pixels" -> Max(Scale(d.size.value), MinPx(d, total))
      [] d.size.unit = "System" -> cap
      [] d.size.unit = "Percent" ->
            Max(PercentOf(total, d.size.value), MinPx(d, total))
      [] OTHER -> 0

\* fillWeights after the first loop
FillWeights(dims) ==
    SumBelow([i \in TrackIds(dims) |->
                 IF dims[i].size.unit = "Fill" THEN dims[i].size.value ELSE 0],
             Cardinality(TrackIds(dims)))

AvailMutWholeExtent(dims, total, cap) == total

\* avail after the first loop: the extent less the splitter bars and the
\* tracks that are not Fill
Avail(dims, total, cap) ==
    total - SumBelow([i \in TrackIds(dims) |->
                         (IF dims[i].splitter THEN Scale(SPLITTER_SIZE) ELSE 0)
                         + AbsoluteActual(dims[i], total, cap)],
                     Cardinality(TrackIds(dims)))

FillActualMutNoFloor(d, avail, fillWeights, total) ==
    IF avail > 0 THEN (avail * d.size.value) \div fillWeights ELSE 0

\* the second loop of the solve lambda: the size of a Fill track
FillActual(d, avail, fillWeights, total) ==
    Max(IF avail > 0 THEN (avail * d.size.value) \div fillWeights ELSE 0,
        MinPx(d, total))

\* d.actual of every track after the two loops
Actuals(dims, total, cap) ==
    [i \in TrackIds(dims) |->
        IF dims[i].size.unit = "Fill" /\ FillWeights(dims) > 0
        THEN FillActual(dims[i], Avail(dims, total, cap), FillWeights(dims), total)
        ELSE AbsoluteActual(dims[i], total, cap)]

TrackPosMutNoSplitter(dims, actual, offset, i) ==
    offset + SumBelow([j \in TrackIds(dims) |-> actual[j]], i)

\* the last loop of the solve lambda: d.pos of track i
TrackPos(dims, actual, offset, i) ==
    offset + SumBelow([j \in TrackIds(dims) |->
                          actual[j] + (IF dims[j].splitter
                                       THEN Scale(SPLITTER_SIZE) ELSE 0)], i)

\* the solve lambda of LayoutImpl::Arrange
Solve(dims, total, offset, cap) ==
    LET actual == Actuals(dims, total, cap)
    IN  [i \in TrackIds(dims) |->
            [dims[i] EXCEPT !.actual = actual[i],
                            !.pos = TrackPos(dims, actual, offset, i)]]

\* LayoutImpl::SetRow
SetRow(rows, i, s, sp, min) ==
    [rows EXCEPT ![i] = [@ EXCEPT !.size = s, !.splitter = sp, !.min = min,
                                  !.sd = @ \/ sp]]

\* LayoutImpl::SetCol
SetCol(cols, i, s, sp, min) ==
    [cols EXCEPT ![i] = [@ EXCEPT !.size = s, !.splitter = sp, !.min = min,
                                  !.sd = @ \/ sp]]

\* the record of a call on the layout
LayoutCall(op, index, res) == [op |-> op, index |-> index, res |-> res]

SetRowCall(i, s, sp, min) ==
    /\ m_rows' = SetRow(m_rows, i, s, sp, min)
    /\ last' = LayoutCall("SetRow", -1, "")
    /\ UNCHANGED <<storeVars, cellVars, calls, dpi, m_cols, m_cells, m_lastRect, named_cells>>

SetColCall(i, s, sp, min) ==
    /\ m_cols' = SetCol(m_cols, i, s, sp, min)
    /\ last' = LayoutCall("SetCol", -1, "")
    /\ UNCHANGED <<storeVars, cellVars, calls, dpi, m_rows, m_cells, m_lastRect, named_cells>>

\* LayoutImpl::Arrange as far as the tracks go: the rectangle is
\* remembered, then the rows are solved over the height and the columns
\* over the width
Arrange(rows, cols, x, y, w, h, cap) ==
    [m_lastRect |-> [left |-> x, top |-> y, right |-> x + w, bottom |-> y + h],
     m_rows |-> Solve(rows, h, y, cap),
     m_cols |-> Solve(cols, w, x, cap)]

\* LayoutImpl::RefreshLayout on the layout state S
RefreshLayout(S, cap) ==
    Arrange(S.m_rows, S.m_cols, S.m_lastRect.left, S.m_lastRect.top,
            S.m_lastRect.right - S.m_lastRect.left,
            S.m_lastRect.bottom - S.m_lastRect.top, cap)

\* the part of the layout that Arrange, CollapseColumn and RestoreColumn
\* read and write
LayoutState == [m_lastRect |-> m_lastRect, m_rows |-> m_rows, m_cols |-> m_cols]

ArrangeCall(x, y, w, h, cap) ==
    LET after == Arrange(m_rows, m_cols, x, y, w, h, cap)
    IN  /\ m_lastRect' = after.m_lastRect
        /\ m_rows' = after.m_rows
        /\ m_cols' = after.m_cols
        /\ last' = LayoutCall("Arrange", -1, "")
        /\ UNCHANGED <<storeVars, cellVars, calls, dpi, m_cells, named_cells>>

\* CollapseColumn returns at once for an index outside the columns and for
\* a column that is collapsed already
CollapseColumnReturns(S, index) ==
    \/ index < 0 \/ index >= m_cCount
    \/ S.m_cols[index].isCollapsed

CollapseColumnMutNoGuard(S, index, cap) ==
    IF index < 0 \/ index >= m_cCount THEN S
    ELSE RefreshLayout(
            [S EXCEPT !.m_cols[index] =
                [@ EXCEPT !.savedSize = S.m_cols[index].size,
                          !.size = S.m_cols[index].min,
                          !.isCollapsed = TRUE]], cap)

\* LayoutImpl::CollapseColumn on the layout state S
CollapseColumn(S, index, cap) ==
    IF CollapseColumnReturns(S, index) THEN S
    ELSE RefreshLayout(
            [S EXCEPT !.m_cols[index] =
                [@ EXCEPT !.savedSize = S.m_cols[index].size,
                          !.size = S.m_cols[index].min,
                          !.isCollapsed = TRUE]], cap)

CollapseColumnCall(index, cap) ==
    LET after == CollapseColumn(LayoutState, index, cap)
    IN  /\ m_lastRect' = after.m_lastRect
        /\ m_rows' = after.m_rows
        /\ m_cols' = after.m_cols
        /\ last' = LayoutCall("CollapseColumn", index,
                              IF CollapseColumnReturns(LayoutState, index)
                              THEN "returned" ELSE "collapsed")
        /\ UNCHANGED <<storeVars, cellVars, calls, dpi, m_cells, named_cells>>

\* RestoreColumn returns at once for an index outside the columns and for
\* a column that is not collapsed
RestoreColumnReturns(S, index) ==
    \/ index < 0 \/ index >= m_cCount
    \/ ~S.m_cols[index].isCollapsed

RestoreColumnMutKeepSize(S, index, cap) ==
    IF RestoreColumnReturns(S, index) THEN S
    ELSE RefreshLayout(
            [S EXCEPT !.m_cols[index] = [@ EXCEPT !.isCollapsed = FALSE]], cap)

\* LayoutImpl::RestoreColumn on the layout state S
RestoreColumn(S, index, cap) ==
    IF RestoreColumnReturns(S, index) THEN S
    ELSE RefreshLayout(
            [S EXCEPT !.m_cols[index] =
                [@ EXCEPT !.size = S.m_cols[index].savedSize,
                          !.isCollapsed = FALSE]], cap)

RestoreColumnCall(index, cap) ==
    LET after == RestoreColumn(LayoutState, index, cap)
    IN  /\ m_lastRect' = after.m_lastRect
        /\ m_rows' = after.m_rows
        /\ m_cols' = after.m_cols
        /\ last' = LayoutCall("RestoreColumn", index,
                              IF RestoreColumnReturns(LayoutState, index)
                              THEN "returned" ELSE "restored")
        /\ UNCHANGED <<storeVars, cellVars, calls, dpi, m_cells, named_cells>>

\* LayoutImpl::IsColumnCollapsed on the layout state S
IsColumnCollapsed(S, index) ==
    IF index < 0 \/ index >= m_cCount THEN FALSE
    ELSE S.m_cols[index].isCollapsed

---------------------------------------------------------------------------
(* The solver model: a layout whose tracks the application declares,       *)
(* arranges, collapses and restores.                                       *)

\* tracks the application declares with SetRow / SetCol
MaxDeclared == 3

\* the DPI of the window
Dpis == {96, 144}

\* what GetSystemMetricsForDpi(SM_CYCAPTION) answers
CaptionHeights == {23}

\* what the application declares for a column: size, splitter, minimum
ColDecls ==
    {<<Fixed(30), FALSE, Fixed(0)>>, <<Fixed(60), FALSE, Fixed(0)>>,
     <<Fill(1), FALSE, Fixed(0)>>, <<Fill(2), TRUE, Fixed(80)>>,
     <<Fill(0), FALSE, Fixed(20)>>, <<Percent(50), FALSE, Percent(10)>>,
     <<System("TitleBar"), FALSE, Fixed(40)>>}

\* what the application declares for a row
RowDecls == {<<Fixed(30), FALSE, Fixed(20)>>}

\* the rectangles the layout is arranged in: x, y, w, h
ArrangeRects == {<<0, 5, 300, 60>>, <<0, 5, 90, 60>>, <<0, 5, 59, 60>>}

\* the column indices the application passes, one of them past the end
ColumnArgs == {1, m_cCount}

InitLayoutModel ==
    /\ m_parent = [n \in Nodes |->
                      CASE n = "ctl" -> NoNode [] n = "con" -> "ctl"
                        [] n = "lay" -> "con" [] n = "cell" -> "lay"
                        [] n = "wid" -> "cell" [] OTHER -> NoNode]
    /\ m_properties = Constructed
    /\ m_checked = [w \in Widgets |-> FALSE]
    /\ m_validated = [w \in Widgets |-> TRUE]
    /\ m_hwnd = [w \in Widgets |-> TRUE]
    /\ wndEnabled = [w \in Widgets |-> TRUE]
    /\ registry = EmptyMap
    /\ last = LayoutCall("none", -1, "")
    /\ calls = NoCalls
    /\ dpi \in Dpis
    /\ LayoutCtor
    /\ InitCells
    /\ InitFactory
    /\ InitLoops

\* nothing has been laid out yet: every track is as the constructor left it
Unsolved ==
    /\ \A i \in DOMAIN m_rows : m_rows[i].actual = 0 /\ m_rows[i].pos = 0
    /\ \A i \in DOMAIN m_cols : m_cols[i].actual = 0 /\ m_cols[i].pos = 0

\* the tracks that the application has declared
DeclaredTracks ==
    {<<"row", i>> : i \in {j \in DOMAIN m_rows : m_rows[j] # DimPlan}}
    \cup {<<"col", i>> : i \in {j \in DOMAIN m_cols : m_cols[j] # DimPlan}}

\* The application declares its tracks, each of them once, before the
\* layout is first solved, then arranges, collapses and restores in any
\* order.
NextLayout ==
    \/ \E i \in 0..(m_rCount - 1), decl \in RowDecls :
          /\ Unsolved
          /\ <<"row", i>> \notin DeclaredTracks
          /\ Cardinality(DeclaredTracks) < MaxDeclared
          /\ SetRowCall(i, decl[1], decl[2], decl[3])
    \/ \E i \in 0..(m_cCount - 1), decl \in ColDecls :
          /\ Unsolved
          /\ <<"col", i>> \notin DeclaredTracks
          /\ Cardinality(DeclaredTracks) < MaxDeclared
          /\ SetColCall(i, decl[1], decl[2], decl[3])
    \/ \E r \in ArrangeRects, cap \in CaptionHeights :
          ArrangeCall(r[1], r[2], r[3], r[4], cap)
    \/ \E index \in ColumnArgs, cap \in CaptionHeights :
          CollapseColumnCall(index, cap)
    \/ \E index \in ColumnArgs, cap \in CaptionHeights :
          RestoreColumnCall(index, cap)

SpecLayout == InitLayoutModel /\ [][NextLayout]_vars

---------------------------------------------------------------------------
(* Claims about the track solver.                                          *)

\* the two axes of the layout: its tracks and the extent they were solved in
Axes ==
    {[dims |-> m_rows, total |-> m_lastRect.bottom - m_lastRect.top,
      offset |-> m_lastRect.top],
     [dims |-> m_cols, total |-> m_lastRect.right - m_lastRect.left,
      offset |-> m_lastRect.left]}

\* the sum of the resolved minimums of an axis
SumOfMinimums(axis) ==
    SumBelow([i \in DOMAIN axis.dims |-> MinPx(axis.dims[i], axis.total)],
             Cardinality(DOMAIN axis.dims))

\* C11: after every arrange, on each axis whose extent is at least the sum
\* of its minimums, every track, whatever its unit, has a resolved size
\* that is at least its resolved minimum.
C11_TrackAtLeastMinimum ==
    last.op = "Arrange" =>
        \A axis \in Axes :
            axis.total >= SumOfMinimums(axis) =>
                \A i \in DOMAIN axis.dims :
                    axis.dims[i].actual >= MinPx(axis.dims[i], axis.total)

\* the Fill tracks of an axis
FillTracks(axis) == {i \in DOMAIN axis.dims : axis.dims[i].size.unit = "Fill"}

\* the sum of f over the set S
RECURSIVE SumOver(_, _)
SumOver(f, S) ==
    IF S = {} THEN 0
    ELSE LET i == CHOOSE j \in S : TRUE IN f[i] + SumOver(f, S \ {i})

\* W: the sum of the weights of the Fill tracks
TotalWeight(axis) ==
    SumOver([i \in DOMAIN axis.dims |-> axis.dims[i].size.value], FillTracks(axis))

\* R: the extent minus the resolved sizes of the tracks that are not Fill
\* and minus the splitter reservations
Remaining(axis) ==
    axis.total
    - SumOver([i \in DOMAIN axis.dims |-> axis.dims[i].actual],
              DOMAIN axis.dims \ FillTracks(axis))
    - SumOver([i \in DOMAIN axis.dims |->
                  IF axis.dims[i].splitter THEN Scale(SPLITTER_SIZE) ELSE 0],
              DOMAIN axis.dims)

\* the sum of the resolved sizes of the Fill tracks
FillSizes(axis) ==
    SumOver([i \in DOMAIN axis.dims |-> axis.dims[i].actual], FillTracks(axis))

\* the sum of the resolved minimums of the Fill tracks
FillMinimums(axis) ==
    SumOver([i \in DOMAIN axis.dims |-> MinPx(axis.dims[i], axis.total)],
            FillTracks(axis))

\* the proportional share of Fill track i: R * W_i / W rounded down
Share(axis, i) ==
    (Remaining(axis) * axis.dims[i].size.value) \div TotalWeight(axis)

\* C12 as stated: when R is at least the sum of the Fill minimums, every
\* Fill track is at least its minimum and the Fill sizes sum to R, less at
\* most one pixel per Fill track.
C12_FillSizesSumToRemaining ==
    last.op = "Arrange" =>
        \A axis \in Axes :
            (FillTracks(axis) # {} /\ Remaining(axis) >= FillMinimums(axis)) =>
                /\ \A i \in FillTracks(axis) :
                      axis.dims[i].actual >= MinPx(axis.dims[i], axis.total)
                /\ FillSizes(axis) <= Remaining(axis)
                /\ FillSizes(axis) >= Remaining(axis) - Cardinality(FillTracks(axis))

\* what the minimum of Fill track i adds to its proportional share
Shortfall(axis, i) ==
    IF MinPx(axis.dims[i], axis.total) > Share(axis, i)
    THEN MinPx(axis.dims[i], axis.total) - Share(axis, i)
    ELSE 0

\* the sum of the shortfalls of the Fill tracks
FillShortfalls(axis) ==
    SumOver([i \in DOMAIN axis.dims |->
                IF i \in FillTracks(axis) THEN Shortfall(axis, i) ELSE 0],
            FillTracks(axis))

\* C12 (amended): with a positive total weight and R at least the sum of
\* the Fill minimums, every Fill track is at least its minimum, the Fill
\* sizes sum to at least R less one pixel per Fill track and to at most R
\* plus what the minimums add to the shares that are below them; so they
\* sum to at most R when every share is at least its minimum.
C12_FillSizesCoverRemaining ==
    last.op = "Arrange" =>
        \A axis \in Axes :
            (/\ FillTracks(axis) # {}
             /\ TotalWeight(axis) > 0
             /\ Remaining(axis) >= FillMinimums(axis)) =>
                /\ \A i \in FillTracks(axis) :
                      axis.dims[i].actual >= MinPx(axis.dims[i], axis.total)
                /\ FillSizes(axis) >= Remaining(axis) - Cardinality(FillTracks(axis))
                /\ FillSizes(axis) <= Remaining(axis) + FillShortfalls(axis)
                /\ (\A i \in FillTracks(axis) :
                       Share(axis, i) >= MinPx(axis.dims[i], axis.total))
                   => FillSizes(axis) <= Remaining(axis)

\* an arrange raised a Fill column from its share to its minimum and the
\* Fill sizes still sum to R: the pixel the minimum adds is the pixel that
\* the rounding of the shares had left over
C12_WitnessAbsorbed ==
    /\ last.op = "Arrange"
    /\ \E axis \in Axes :
          /\ TotalWeight(axis) > 0
          /\ Remaining(axis) >= FillMinimums(axis)
          /\ \E i \in FillTracks(axis) :
                /\ Shortfall(axis, i) > 0
                /\ axis.dims[i].actual = MinPx(axis.dims[i], axis.total)
          /\ FillSizes(axis) = Remaining(axis)

\* an arrange raised a Fill column to its minimum and the Fill sizes sum
\* to more than R, by exactly what the minimums add
C12_WitnessExceeds ==
    /\ last.op = "Arrange"
    /\ \E axis \in Axes :
          /\ TotalWeight(axis) > 0
          /\ Remaining(axis) >= FillMinimums(axis)
          /\ FillShortfalls(axis) > 0
          /\ FillSizes(axis) = Remaining(axis) + FillShortfalls(axis)
          /\ FillSizes(axis) > Remaining(axis)

\* C12 witness: an arrange left three Fill columns of different weights
\* whose shares are all above their minimums, and a pixel of the remaining
\* space was lost to rounding.
C12_Witness ==
    /\ last.op = "Arrange"
    /\ \E axis \in Axes :
          /\ Cardinality(FillTracks(axis)) = 3
          /\ \E i, j \in FillTracks(axis) :
                axis.dims[i].size.value # axis.dims[j].size.value
          /\ TotalWeight(axis) > 0
          /\ Remaining(axis) >= FillMinimums(axis)
          /\ \A i \in FillTracks(axis) :
                /\ Share(axis, i) >= MinPx(axis.dims[i], axis.total)
                /\ axis.dims[i].actual = Share(axis, i)
          /\ FillSizes(axis) = Remaining(axis) - 1

\* an axis declared Fixed(a), Fill(1), Fixed(b) with no splitters and zero
\* minimums
FixedFillFixed(axis, a, b) ==
    /\ DOMAIN axis.dims = 0..2
    /\ axis.dims[0].size = Fixed(a)
    /\ axis.dims[1].size = Fill(1)
    /\ axis.dims[2].size = Fixed(b)
    /\ \A i \in 0..2 : ~axis.dims[i].splitter /\ axis.dims[i].min.value = 0

\* the resolved sizes and positions of a three-track axis
Sizes(axis) == <<axis.dims[0].actual, axis.dims[1].actual, axis.dims[2].actual>>
Positions(axis) == <<axis.dims[0].pos, axis.dims[1].pos, axis.dims[2].pos>>

\* the Fixed sizes the application declares
FixedValues ==
    {decl[1].value : decl \in {c \in ColDecls \cup RowDecls : c[1].unit = "Pixels"}}

\* C13: an axis declared Fixed(a), Fill(1), Fixed(b) with no splitters and
\* zero minimums, arranged at origin 0 in an extent T >= a + b at 96 DPI,
\* resolves to the sizes a, T - a - b, b at the positions 0, a, T - b; with
\* a = 30, b = 60 and T = 300 that is 30, 210, 60 at 0, 30, 240.
C13_FixedFillFixed ==
    (last.op = "Arrange" /\ dpi = 96) =>
        \A axis \in Axes : \A a, b \in FixedValues :
            (/\ FixedFillFixed(axis, a, b)
             /\ axis.offset = 0
             /\ axis.total >= a + b) =>
                /\ Sizes(axis) = <<a, axis.total - a - b, b>>
                /\ Positions(axis) = <<0, a, axis.total - b>>
                /\ (a = 30 /\ b = 60 /\ axis.total = 300) =>
                      /\ Sizes(axis) = <<30, 210, 60>>
                      /\ Positions(axis) = <<0, 30, 240>>

\* C13 witness: the columns Fixed(30), Fill(1), Fixed(60) were arranged at
\* origin 0 in 300 pixels at 96 DPI.
C13_Witness ==
    /\ last.op = "Arrange" /\ dpi = 96
    /\ \E axis \in Axes :
          /\ FixedFillFixed(axis, 30, 60)
          /\ axis.offset = 0 /\ axis.total = 300
          /\ Sizes(axis) = <<30, 210, 60>>
          /\ Positions(axis) = <<0, 30, 240>>

---------------------------------------------------------------------------
(* Claims about collapsing and restoring a column.                         *)

\* C14: collapsing a column that is collapsed already, and restoring a
\* column that is not collapsed, change nothing in the layout.
C14_CollapseRestoreIdempotent ==
    [][(\/ /\ last'.op = "CollapseColumn"
           /\ IsColumnCollapsed(LayoutState, last'.index)
        \/ /\ last'.op = "RestoreColumn"
           /\ last'.index \in DOMAIN m_cols
           /\ ~IsColumnCollapsed(LayoutState, last'.index))
       => /\ LayoutState' = LayoutState
          /\ UNCHANGED <<m_cells, named_cells>>]_vars

\* C14 witness: CollapseColumn was called on a collapsed column whose saved
\* size differs from the minimum it was collapsed to, and the saved size is
\* still there.
C14_Witness ==
    /\ last.op = "CollapseColumn" /\ last.res = "returned"
    /\ last.index \in DOMAIN m_cols
    /\ m_cols[last.index].isCollapsed
    /\ m_cols[last.index].size = m_cols[last.index].min
    /\ m_cols[last.index].savedSize # m_cols[last.index].min

\* C15: collapsing a column and then restoring it gives the column the
\* size policy it had before the collapse, and the column is reported as
\* not collapsed.
C15_CollapseThenRestore ==
    \A i \in DOMAIN m_cols : \A cap \in CaptionHeights :
        ~IsColumnCollapsed(LayoutState, i) =>
            LET collapsed == CollapseColumn(LayoutState, i, cap)
                restored == RestoreColumn(collapsed, i, cap)
            IN  /\ IsColumnCollapsed(collapsed, i)
                /\ restored.m_cols[i].size = m_cols[i].size
                /\ ~IsColumnCollapsed(restored, i)

\* C15 witness: a column whose size policy differs from its minimum was
\* collapsed and then restored: it has its size policy back.
C15_Witness ==
    /\ last.op = "RestoreColumn" /\ last.res = "restored"
    /\ ~IsColumnCollapsed(LayoutState, last.index)
    /\ m_cols[last.index].size = m_cols[last.index].savedSize
    /\ m_cols[last.index].size # m_cols[last.index].min
    /\ m_cols[last.index].size.unit = "Percent"

---------------------------------------------------------------------------
(* LayoutImpl: cell lookup by position and by name.                        *)

\* the record of a lookup call on the layout
GridCall(op, r, c, name, res, cell) ==
    [op |-> op, r |-> r, c |-> c, name |-> name, res |-> res, cell |-> cell]

\* m_cells[r * m_cCount + c] is an element of the vector
InVector(r, c) ==
    r * m_cCount + c >= 0 /\ r * m_cCount + c < m_rCount * m_cCount

\* what reading m_cells past its ends can do: the word read is null, the
\* word read is taken for a cell, or the read faults
OutOfVector == {"null", "wild", "crash"}

\* LayoutImpl::GetCell(int, int): the cells after the call; a cell without
\* a parent gets the layout as its parent
CellsAfterGetCell(cells, r, c) ==
    IF InVector(r, c) /\ cells[r * m_cCount + c].m_parent = NoNode
    THEN [cells EXCEPT ![r * m_cCount + c].m_parent = "lay"]
    ELSE cells

\* LayoutImpl::GetCell(int, int), called by op: what the call returns; no
\* check of r against m_rCount or of c against m_cCount is made
GetCellResults(op, r, c, name) ==
    IF InVector(r, c)
    THEN {GridCall(op, r, c, name, "cell", r * m_cCount + c)}
    ELSE {GridCall(op, r, c, name, outcome, -1) : outcome \in OutOfVector}

GetCellCall(r, c) ==
    /\ m_cells' = CellsAfterGetCell(m_cells, r, c)
    /\ last' \in GetCellResults("GetCell", r, c, "")
    /\ UNCHANGED <<storeVars, cellVars, calls, dpi, m_rows, m_cols, m_lastRect, named_cells>>

\* LayoutImpl::SetCellName
SetCellNameCall(row, col, name) ==
    /\ named_cells' =
          [n \in DOMAIN named_cells \cup {name} |->
              IF n = name THEN <<row, col>> ELSE named_cells[n]]
    /\ last' = GridCall("SetCellName", row, col, name, "", -1)
    /\ UNCHANGED <<storeVars, cellVars, calls, dpi, m_rows, m_cols, m_cells, m_lastRect>>

\* LayoutImpl::GetCell(const char*)
GetCellByNameCall(name) ==
    IF name \notin DOMAIN named_cells
    THEN /\ last' = GridCall("GetCellByName", -1, -1, name, "null", -1)
         /\ UNCHANGED <<storeVars, cellVars, calls, layoutVars>>
    ELSE /\ m_cells' = CellsAfterGetCell(m_cells, named_cells[name][1],
                                         named_cells[name][2])
         /\ last' \in GetCellResults("GetCellByName", named_cells[name][1],
                                     named_cells[name][2], name)
         /\ UNCHANGED <<storeVars, cellVars, calls, dpi, m_rows, m_cols, m_lastRect,
                        named_cells>>

---------------------------------------------------------------------------
(* The lookup model: cells are looked up by position and by name.          *)

\* the rows and columns the application passes, some of them off the grid
RowArgs == -1..m_rCount
ColArgs == -1..m_cCount

\* the names the application registers and the names it looks up
CellNames == {"main"}
LookupNames == {"main", "side"}

\* the positions the application registers a name for
NamedPositions == {<<0, 0>>, <<1, 2>>, <<0, 3>>, <<2, 0>>}

InitGrid ==
    /\ m_parent = [n \in Nodes |->
                      CASE n = "ctl" -> NoNode [] n = "con" -> "ctl"
                        [] n = "lay" -> "con" [] n = "cell" -> "lay"
                        [] n = "wid" -> "cell" [] OTHER -> NoNode]
    /\ m_properties = Constructed
    /\ m_checked = [w \in Widgets |-> FALSE]
    /\ m_validated = [w \in Widgets |-> TRUE]
    /\ m_hwnd = [w \in Widgets |-> TRUE]
    /\ wndEnabled = [w \in Widgets |-> TRUE]
    /\ registry = EmptyMap
    /\ last = GridCall("none", -1, -1, "", "", -1)
    /\ calls = NoCalls
    /\ InitUi

NextGrid ==
    \/ \E r \in RowArgs, c \in ColArgs : GetCellCall(r, c)
    \/ \E p \in NamedPositions, name \in CellNames :
          SetCellNameCall(p[1], p[2], name)
    \/ \E name \in LookupNames : GetCellByNameCall(name)

SpecGrid == InitGrid /\ [][NextGrid]_vars

\* the grid of the layout
InGrid(r, c) == r \in 0..(m_rCount - 1) /\ c \in 0..(m_cCount - 1)

\* C16: GetCell(row, col) with a row or a column outside the grid, and
\* GetCell(name) with a name that was never registered, return null and
\* leave the layout as it was.
C16_InvalidLookupReturnsNull ==
    [][(\/ last'.op = "GetCell" /\ ~InGrid(last'.r, last'.c)
        \/ last'.op = "GetCellByName" /\ last'.name \notin DOMAIN named_cells)
       => last'.res = "null" /\ UNCHANGED layoutVars]_vars

---------------------------------------------------------------------------
(* CellImpl: dimensions and the command bar measurement.                   *)

\* the value of the decimal digit c
DigitValue(c) == FindText("0123456789", c, 1) - 1

\* c is a decimal digit
IsDigit(c) == FindText("0123456789", c, 1) > 0

\* the whole number that the digits of s from position i on spell, after
\* the whole number acc: its value and the position after its last digit
RECURSIVE ParseDigits(_, _, _)
ParseDigits(s, i, acc) ==
    IF i <= Len(s) /\ IsDigit(CharAt(s, i))
    THEN ParseDigits(s, i + 1, 10 * acc + DigitValue(CharAt(s, i)))
    ELSE [value |-> acc, next |-> i]

\* the position of the first character of s from i on that is not white space
RECURSIVE SkipSpace(_, _)
SkipSpace(s, i) ==
    IF i <= Len(s) /\ IsSpace(CharAt(s, i)) THEN SkipSpace(s, i + 1) ELSE i

\* std::stof for the widths the models declare, which are whole numbers:
\* white space is skipped, the digits are converted and what follows them is
\* ignored; without a digit the conversion throws (ok is FALSE)
StoF(val) ==
    LET start == SkipSpace(val, 1)
        parsed == ParseDigits(val, start, 0)
    IN  [ok |-> parsed.next > start, value |-> parsed.value]

\* (int)(refTotalSize * (fVal / 100.0f)); the models declare percentages
\* whose hundredth is a binary fraction, so that the float product is exact
PercentDim(refTotalSize, fVal) == (refTotalSize * fVal) \div 100

\* CellImpl::ParseCssDimension
ParseCssDimension(input, refTotalSize) ==
    IF input = "" THEN -1
    ELSE IF input = "auto" THEN refTotalSize
    ELSE LET isPercent == CharAt(input, Len(input)) = "%"
             val == IF isPercent THEN SubSeq(input, 1, Len(input) - 1)
                    ELSE IF /\ Len(input) > 2
                            /\ SubSeq(input, Len(input) - 1, Len(input))
                                  \in {"px", "lu"}
                    THEN SubSeq(input, 1, Len(input) - 2)
                    ELSE input
             fVal == StoF(val)
         IN  IF ~fVal.ok THEN -1
             ELSE IF isPercent THEN PercentDim(refTotalSize, fVal.value)
             ELSE Scale(fVal.value)

\* w->GetProperty("width") of the widgets of the models; w6 declares none
WidthProperty ==
    [w \in WidgetIds |->
        CASE w \in {"w1", "w2", "w3"} -> "25%"
          [] w \in {"w4", "w11", "w12"} -> "auto"
          [] w = "w5" -> "100px"
          [] w \in {"w7", "w8", "w9", "w10"} -> "80px"
          [] OTHER -> ""]

\* widgetWidth in MeasureCommandBarWidgets
WidgetWidth(w, availableWidth) ==
    IF WidthProperty[w] = "auto" THEN Scale(40)
    ELSE LET parsed == ParseCssDimension(WidthProperty[w], availableWidth)
         IN  IF parsed < 0 THEN Scale(80) ELSE parsed

\* the loop of MeasureCommandBarWidgets from the widget at position i on
RECURSIVE MeasureFrom(_, _, _, _, _, _, _)
MeasureFrom(list, i, availableWidth, allowOverflow, usedWidth, vis, overflow) ==
    IF i > Len(list) THEN [visible |-> vis, overflow |-> overflow]
    ELSE LET w == list[i]
             widgetWidth == WidgetWidth(w, availableWidth)
             overflowBtnWidth == Scale(40)
             spacing == Scale(4)
             needsOverflowRoom ==
                 \/ overflow # <<>>
                 \/ usedWidth + widgetWidth + spacing + overflowBtnWidth
                       > availableWidth
             maxWidth == IF allowOverflow /\ needsOverflowRoom
                         THEN availableWidth - overflowBtnWidth - spacing
                         ELSE availableWidth
         IN  IF overflow = <<>> /\ usedWidth + widgetWidth <= maxWidth
             THEN MeasureFrom(list, i + 1, availableWidth, allowOverflow,
                              usedWidth + widgetWidth + spacing,
                              Append(vis, w), overflow)
             ELSE MeasureFrom(list, i + 1, availableWidth, allowOverflow,
                              usedWidth, vis,
                              IF allowOverflow THEN Append(overflow, w)
                              ELSE overflow)

\* MeasureCommandBarWidgets taking every widget that fits, also after one
\* that overflowed
RECURSIVE MeasureFromMutRefit(_, _, _, _, _, _, _)
MeasureFromMutRefit(list, i, availableWidth, allowOverflow, usedWidth, vis, overflow) ==
    IF i > Len(list) THEN [visible |-> vis, overflow |-> overflow]
    ELSE LET w == list[i]
             widgetWidth == WidgetWidth(w, availableWidth)
             needsOverflowRoom ==
                 \/ overflow # <<>>
                 \/ usedWidth + widgetWidth + Scale(4) + Scale(40)
                       > availableWidth
             maxWidth == IF allowOverflow /\ needsOverflowRoom
                         THEN availableWidth - Scale(40) - Scale(4)
                         ELSE availableWidth
         IN  IF usedWidth + widgetWidth <= maxWidth
             THEN MeasureFromMutRefit(list, i + 1, availableWidth,
                                      allowOverflow,
                                      usedWidth + widgetWidth + Scale(4),
                                      Append(vis, w), overflow)
             ELSE MeasureFromMutRefit(list, i + 1, availableWidth,
                                      allowOverflow, usedWidth, vis,
                                      IF allowOverflow THEN Append(overflow, w)
                                      ELSE overflow)

MeasureCommandBarWidgetsMutRefit(list, availableWidth, allowOverflow) ==
    MeasureFromMutRefit(list, 1, availableWidth, allowOverflow, 0, <<>>, <<>>)

\* MeasureCommandBarWidgets without the room kept for the overflow button
MeasureCommandBarWidgetsMutNoReserve(list, availableWidth, allowOverflow) ==
    MeasureFrom(list, 1, availableWidth + Scale(40) + Scale(4), allowOverflow,
                0, <<>>, <<>>)

\* CellImpl::MeasureCommandBarWidgets on the widget list of a cell
MeasureCommandBarWidgets(list, availableWidth, allowOverflow) ==
    MeasureFrom(list, 1, availableWidth, allowOverflow, 0, <<>>, <<>>)

---------------------------------------------------------------------------
(* The measurement model: a command bar with a fixed list of widgets is    *)
(* measured at several widths.                                             *)

\* widgets in the command bar
MaxBarWidgets == 3

\* the widths the command bar is measured at
MeasureWidths == {90, 100, 203, 204, 300}

\* the widgets of the measured command bars
MeasurePool == WidgetIds \ {"w11", "w12"}

\* the lists of n different widgets
RECURSIVE ListsOf(_)
ListsOf(n) ==
    IF n = 0 THEN {<<>>}
    ELSE {Append(l, w) : l \in ListsOf(n - 1), w \in MeasurePool}

\* the widget lists a command bar can hold: different widgets, in any order
BarLists ==
    {l \in UNION {ListsOf(n) : n \in 0..MaxBarWidgets} :
        \A i, j \in DOMAIN l : i # j => l[i] # l[j]}

\* the record of a measurement
MeasureCall(availableWidth, allowOverflow, result) ==
    [op |-> "MeasureCommandBarWidgets", availableWidth |-> availableWidth,
     allowOverflow |-> allowOverflow, visible |-> result.visible,
     overflow |-> result.overflow]

\* the cell "bar" after AddWidget was called for every widget of a list
InitMeasure ==
    /\ m_parent = [n \in Nodes |->
                      CASE n = "ctl" -> NoNode [] n = "con" -> "ctl"
                        [] n = "lay" -> "con" [] n = "cell" -> "lay"
                        [] n = "wid" -> "cell" [] OTHER -> NoNode]
    /\ m_properties = Constructed
    /\ m_checked = [w \in Widgets |-> FALSE]
    /\ m_validated = [w \in Widgets |-> TRUE]
    /\ m_hwnd = [w \in Widgets |-> TRUE]
    /\ wndEnabled = [w \in Widgets |-> TRUE]
    /\ registry = EmptyMap
    /\ last = [op |-> "none", availableWidth |-> 0, allowOverflow |-> TRUE,
               visible |-> <<>>, overflow |-> <<>>]
    /\ calls = NoCalls
    /\ InitLayout
    /\ \E l \in BarLists :
          /\ widgets = [c \in CellIds |-> IF c = "bar" THEN l ELSE <<>>]
          /\ hwndParent = [w \in WidgetIds |->
                              IF \E i \in DOMAIN l : l[i] = w THEN "bar" ELSE NoCell]
          /\ visible = [w \in WidgetIds |-> \E i \in DOMAIN l : l[i] = w]
    /\ nested = [c \in CellIds |-> FALSE]
    /\ m_mode = [c \in CellIds |-> "Vertical"]
    /\ m_activeTab = [c \in CellIds |-> 0]
    /\ overflowItems = [c \in CellIds |-> <<>>]
    /\ overflowButton = [c \in CellIds |-> FALSE]
    /\ leftWindows = {}
    /\ popup = NoPopup
    /\ InitFactory
    /\ InitLoops

MeasureCommandBarWidgetsCall(availableWidth, allowOverflow) ==
    /\ last' = MeasureCall(availableWidth, allowOverflow,
                           MeasureCommandBarWidgets(widgets["bar"],
                                                    availableWidth,
                                                    allowOverflow))
    /\ UNCHANGED <<storeVars, calls, uiVars>>

NextMeasure ==
    \E availableWidth \in MeasureWidths, allowOverflow \in BOOLEAN :
        MeasureCommandBarWidgetsCall(availableWidth, allowOverflow)

SpecMeasure == InitMeasure /\ [][NextMeasure]_vars

\* C20: for a fixed widget list, measuring at a larger width never gives a
\* larger overflow set, and measuring at a smaller width never gives a
\* smaller one.
C20_OverflowMonotonic ==
    last.op = "MeasureCommandBarWidgets" =>
        \A availableWidth \in MeasureWidths :
            LET other == MeasureCommandBarWidgets(widgets["bar"], availableWidth,
                                                  last.allowOverflow)
            IN  /\ availableWidth >= last.availableWidth
                      => Len(other.overflow) <= Len(last.overflow)
                /\ availableWidth <= last.availableWidth
                      => Len(other.overflow) >= Len(last.overflow)


---------------------------------------------------------------------------
(* Cells: the widget list, the nested layout, the stacking mode and the    *)
(* overflow popup of CellImpl.                                             *)

\* GetParent of a widget that WidgetFactory::Destroy has destroyed
Destroyed == "destroyed"

\* the members of the cells and the windows of the widgets, as one value
CellState ==
    [widgets |-> widgets, nested |-> nested, m_mode |-> m_mode,
     m_activeTab |-> m_activeTab, overflowItems |-> overflowItems,
     overflowButton |-> overflowButton, hwndParent |-> hwndParent,
     visible |-> visible, leftWindows |-> leftWindows, popup |-> popup]

\* std::find: the position of the first occurrence, 0 for end()
Find(list, w) ==
    IF \E i \in DOMAIN list : list[i] = w
    THEN CHOOSE i \in DOMAIN list :
             list[i] = w /\ \A j \in 1..(i - 1) : list[j] # w
    ELSE 0

\* vector::erase of one position
Erase(list, it) == SubSeq(list, 1, it - 1) \o SubSeq(list, it + 1, Len(list))

\* a widget has a window once WidgetImpl::Create has run, until the widget
\* is destroyed; the window is always the child of a cell
HasWindow(S, w) == S.hwndParent[w] \in CellIds

\* ShowWindow(w->GetHWND(), SW_SHOW or SW_HIDE); it fails without a window
ShowWindow(S, w, show) ==
    IF HasWindow(S, w) THEN [S EXCEPT !.visible[w] = show] ELSE S

\* CellImpl::AddWidget: WidgetImpl::Create makes a visible child window of
\* the cell and m_hwnd points to it; the window the widget had stays where
\* it is, with the widget as its user data. Then the widget is appended;
\* nothing looks at the nested layout or at the lists the widget is
\* already in
CellAddWidget(S, c, w) ==
    [S EXCEPT !.leftWindows = IF HasWindow(S, w)
                              THEN @ \cup {<<w, S.hwndParent[w]>>} ELSE @,
              !.hwndParent[w] = c, !.visible[w] = TRUE,
              !.widgets[c] = Append(@, w)]

\* ContainerImpl::RegisterWidget and UnregisterWidget; only the widgets
\* registered with the container of the popup are kept track of
RegisterWidget(S, c, w) ==
    IF c = "popup" THEN [S EXCEPT !.popup.registered = @ \cup {w}] ELSE S

UnregisterWidget(S, c, w) ==
    IF c = "popup" THEN [S EXCEPT !.popup.registered = @ \ {w}] ELSE S

\* CellImpl::DetachWidget
DetachWidget(S, c, w) ==
    LET it == Find(S.widgets[c], w)
    IN  IF it = 0 THEN S
        ELSE UnregisterWidget([S EXCEPT !.widgets[c] = Erase(@, it)], c, w)

\* CellImpl::RemoveWidget
RemoveWidget(S, c, w) ==
    LET it == Find(S.widgets[c], w)
    IN  IF it = 0 THEN S
        ELSE UnregisterWidget(
                 [ShowWindow(S, w, FALSE) EXCEPT !.widgets[c] = Erase(@, it)],
                 c, w)

\* CellImpl::AdoptWidget: the widget is detached from the cell of its
\* window's parent only when that is another cell, and appended in any case
AdoptWidget(S, c, w) ==
    LET hOldParent == S.hwndParent[w]
        detached == IF HasWindow(S, w) /\ hOldParent # c
                    THEN DetachWidget(S, hOldParent, w)
                    ELSE S
        reparented == IF HasWindow(S, w)
                      THEN [detached EXCEPT !.hwndParent[w] = c]
                      ELSE detached
        pushed == [reparented EXCEPT !.widgets[c] = Append(@, w)]
    IN  ShowWindow(RegisterWidget(pushed, c, w), w, TRUE)

\* WidgetFactory::Destroy for every widget of a set; a widget that is no
\* longer in the factory's map is left alone
DestroyAll(S, toDestroy) ==
    [S EXCEPT !.hwndParent = [w \in WidgetIds |->
                                 IF w \in toDestroy THEN Destroyed ELSE @[w]],
              !.visible = [w \in WidgetIds |-> w \notin toDestroy /\ @[w]]]

\* CellImpl::Clean: the nested layout is deleted, the widgets and the
\* overflow button are destroyed; overflowItems is not touched
Clean(S, c) ==
    [DestroyAll(S, Range(S.widgets[c])) EXCEPT
        !.nested[c] = FALSE, !.widgets[c] = <<>>, !.overflowButton[c] = FALSE]

\* CellImpl::CreateLayout
CreateLayout(S, c) == [Clean(S, c) EXCEPT !.nested[c] = TRUE]

\* the cells of the models carry no "overflow" property: the default "true"
AllowOverflow == TRUE

\* ShowWindow for every widget of a list, in order
RECURSIVE ShowFrom(_, _, _, _)
ShowFrom(S, list, i, show) ==
    IF i > Len(list) THEN S
    ELSE ShowFrom(ShowWindow(S, list[i], show), list, i + 1, show)

\* the CommandBar branch of UpdateWidgets: measure, make or destroy the
\* overflow button, show the visible widgets, hide the overflowed ones
UpdateCommandBar(S, c, parentWidth) ==
    LET m == MeasureCommandBarWidgets(S.widgets[c], parentWidth, AllowOverflow)
        S1 == [S EXCEPT !.overflowButton[c] = (m.overflow # <<>>),
                        !.overflowItems[c] = m.overflow]
    IN  ShowFrom(ShowFrom(S1, m.visible, 1, TRUE), m.overflow, 1, FALSE)

\* the Tabbed branch of UpdateWidgets, from position i (1-based) on
RECURSIVE UpdateTabbedFrom(_, _, _)
UpdateTabbedFrom(S, c, i) ==
    IF i > Len(S.widgets[c]) THEN S
    ELSE UpdateTabbedFrom(
             ShowWindow(S, S.widgets[c][i], i - 1 = S.m_activeTab[c]),
             c, i + 1)

\* CellImpl::UpdateWidgets in a cell whose client rectangle is parentWidth
\* wide
UpdateWidgets(S, c, parentWidth) ==
    IF S.nested[c] THEN S
    ELSE IF S.widgets[c] = <<>> THEN S
    ELSE IF S.m_mode[c] = "CommandBar" THEN UpdateCommandBar(S, c, parentWidth)
    ELSE IF S.m_mode[c] = "Tabbed" THEN UpdateTabbedFrom(S, c, 1)
    ELSE ShowFrom(S, S.widgets[c], 1, TRUE)

\* UpdateWidgets reads the widgets of the list: a destroyed widget left in
\* the list is a dangling pointer
Dangling(S, c) ==
    /\ ~S.nested[c]
    /\ \E w \in Range(S.widgets[c]) : S.hwndParent[w] = Destroyed

\* what UpdateWidgets can do: with a dangling pointer in the list the call
\* either runs on the freed object as if it were there, or crashes
UpdateOutcomes(S, c, parentWidth) ==
    {[state |-> UpdateWidgets(S, c, parentWidth), res |-> "done"]}
    \cup (IF Dangling(S, c) THEN {[state |-> S, res |-> "crash"]} ELSE {})

\* CellImpl::SetStackMode
SetStackMode(S, c, mode) == [S EXCEPT !.m_mode[c] = mode]

\* CellImpl::SetActiveTab
SetActiveTab(S, c, index) == [S EXCEPT !.m_activeTab[c] = index]

\* ShowOverflowPopup, first loop: every overflowed item is detached from
\* the cell and adopted by the cell of the popup
RECURSIVE MoveToPopup(_, _, _, _)
MoveToPopup(S, c, movedItems, i) ==
    IF i > Len(movedItems) THEN S
    ELSE MoveToPopup(AdoptWidget(DetachWidget(S, c, movedItems[i]),
                                 "popup", movedItems[i]),
                     c, movedItems, i + 1)

\* ShowOverflowPopup up to RunMessageLoop: a new container with one cell,
\* stacking vertically, takes the overflowed items
ShowOverflowPopup(S, c, parentWidth) ==
    LET movedItems == S.overflowItems[c]
        cleared == [S EXCEPT !.overflowItems[c] = <<>>,
                             !.m_mode["popup"] = "Vertical",
                             !.popup = [open |-> TRUE, cell |-> c,
                                        movedItems |-> movedItems,
                                        registered |-> {}]]
    IN  UpdateWidgets(MoveToPopup(cleared, c, movedItems, 1), "popup",
                      parentWidth)

\* ShowOverflowPopup, second loop: the moved items are adopted back
RECURSIVE RestoreWidgets(_, _, _, _)
RestoreWidgets(S, c, movedItems, i) ==
    IF i > Len(movedItems) THEN S
    ELSE RestoreWidgets(AdoptWidget(S, c, movedItems[i]), c, movedItems, i + 1)

\* ShowOverflowPopup after RunMessageLoop, up to the final UpdateWidgets:
\* ~ContainerImpl destroys the widgets still registered with the popup;
\* its layout and cell are not deleted and nothing refers to them any more
ClosePopup(S, c, movedItems) ==
    LET restored == RestoreWidgets(S, c, movedItems, 1)
    IN  [DestroyAll(restored, restored.popup.registered) EXCEPT
            !.widgets["popup"] = <<>>, !.popup = NoPopup]

\* the next state of the cells
SetCells(S) ==
    /\ widgets' = S.widgets
    /\ nested' = S.nested
    /\ m_mode' = S.m_mode
    /\ m_activeTab' = S.m_activeTab
    /\ overflowItems' = S.overflowItems
    /\ overflowButton' = S.overflowButton
    /\ hwndParent' = S.hwndParent
    /\ visible' = S.visible
    /\ leftWindows' = S.leftWindows
    /\ popup' = S.popup
    /\ UNCHANGED <<factoryVars, loops>>

---------------------------------------------------------------------------
(* The cell model: a client drives two cells of one container.             *)

\* widgets in the list of one cell
MaxCellWidgets == 2

\* calls of the client on the cells
MaxCellOps == 7

\* the cells the client holds, and the one it restyles
ClientCells == {"bar", "side"}
BarCells == {"bar"}

\* the widgets the client has created: one of width "25%", one of "100px"
CellWidgets == {"w1", "w5"}

\* enum class StackMode
StackModes == {"Vertical", "Horizontal", "Tabbed", "CommandBar"}

\* the arguments of SetStackMode
ModeArgs == {"Vertical", "Tabbed", "CommandBar"}

\* the arguments of SetActiveTab
TabArgs == 0..(MaxCellWidgets - 1)

\* the widths of the cell's client rectangle
CellWidths == {90, 300}

\* the record of a call on a cell: whether it came back
CellCall(res) == [op |-> "cell", res |-> res]

\* a container with its cells made and no widget added
InitCell ==
    /\ m_parent = [n \in Nodes |->
                      CASE n = "ctl" -> NoNode [] n = "con" -> "ctl"
                        [] n = "lay" -> "con" [] n = "cell" -> "lay"
                        [] n = "wid" -> "cell" [] OTHER -> NoNode]
    /\ m_properties = Constructed
    /\ m_checked = [w \in Widgets |-> FALSE]
    /\ m_validated = [w \in Widgets |-> TRUE]
    /\ m_hwnd = [w \in Widgets |-> TRUE]
    /\ wndEnabled = [w \in Widgets |-> TRUE]
    /\ registry = EmptyMap
    /\ last = CellCall("done")
    /\ calls = NoCalls
    /\ InitUi

\* the process has not crashed, and the client has calls left
Running == last.res # "crash" /\ calls.cellops < MaxCellOps

\* one more call of the client
Called == calls' = [calls EXCEPT !.cellops = @ + 1]

\* the client passes pointers to widgets that exist
Alive(w) == hwndParent[w] # Destroyed

AddWidgetCall(c, w) ==
    /\ Running
    /\ Alive(w)
    /\ Len(widgets[c]) < MaxCellWidgets
    /\ SetCells(CellAddWidget(CellState, c, w))
    /\ Called
    /\ UNCHANGED <<storeVars, layoutVars, last>>

\* AdoptWidget "takes an existing widget from another cell": the client
\* adopts widgets that some cell was given before, which have a window
AdoptWidgetCall(c, w) ==
    /\ Running
    /\ HasWindow(CellState, w)
    /\ Len(widgets[c]) < MaxCellWidgets
    /\ SetCells(AdoptWidget(CellState, c, w))
    /\ Called
    /\ UNCHANGED <<storeVars, layoutVars, last>>

DetachWidgetCall(c, w) ==
    /\ Running
    /\ Alive(w)
    /\ SetCells(DetachWidget(CellState, c, w))
    /\ Called
    /\ UNCHANGED <<storeVars, layoutVars, last>>

RemoveWidgetCall(c, w) ==
    /\ Running
    /\ Alive(w)
    /\ SetCells(RemoveWidget(CellState, c, w))
    /\ Called
    /\ UNCHANGED <<storeVars, layoutVars, last>>

RemoveAllWidgetsCall(c) ==
    /\ Running
    /\ SetCells(Clean(CellState, c))
    /\ Called
    /\ UNCHANGED <<storeVars, layoutVars, last>>

CreateLayoutCall(c) ==
    /\ Running
    /\ SetCells(CreateLayout(CellState, c))
    /\ Called
    /\ UNCHANGED <<storeVars, layoutVars, last>>

UpdateWidgetsCall(c, parentWidth) ==
    /\ Running
    /\ \E o \in UpdateOutcomes(CellState, c, parentWidth) :
          /\ SetCells(o.state)
          /\ last' = CellCall(o.res)
    /\ Called
    /\ UNCHANGED <<storeVars, layoutVars>>

SetStackModeCall(c, mode, parentWidth) ==
    /\ Running
    /\ \E o \in UpdateOutcomes(SetStackMode(CellState, c, mode), c, parentWidth) :
          /\ SetCells(o.state)
          /\ last' = CellCall(o.res)
    /\ Called
    /\ UNCHANGED <<storeVars, layoutVars>>

SetActiveTabCall(c, index, parentWidth) ==
    /\ Running
    /\ \E o \in UpdateOutcomes(SetActiveTab(CellState, c, index), c, parentWidth) :
          /\ SetCells(o.state)
          /\ last' = CellCall(o.res)
    /\ Called
    /\ UNCHANGED <<storeVars, layoutVars>>

\* what ShowOverflowPopup can do up to the message loop of the popup: the
\* items it moves are read, so a destroyed one among them is a dangling
\* pointer
PopupOutcomes(S, c, parentWidth) ==
    IF S.overflowItems[c] = <<>>
    THEN {[state |-> S, res |-> "done"]}
    ELSE {[state |-> ShowOverflowPopup(S, c, parentWidth), res |-> "done"]}
         \cup (IF \E w \in Range(S.overflowItems[c]) :
                      S.hwndParent[w] = Destroyed
               THEN {[state |-> S, res |-> "crash"]}
               ELSE {})

\* a click on the overflow button
ShowOverflowPopupCall(c, parentWidth) ==
    /\ Running
    /\ ~popup.open
    /\ overflowButton[c]
    /\ \E o \in PopupOutcomes(CellState, c, parentWidth) :
          /\ SetCells(o.state)
          /\ last' = CellCall(o.res)
    /\ Called
    /\ UNCHANGED <<storeVars, layoutVars>>

\* the popup is dismissed: RunMessageLoop returns and ShowOverflowPopup
\* runs to its end
PopupDismissed(parentWidth) ==
    /\ last.res # "crash"
    /\ popup.open
    /\ \E o \in UpdateOutcomes(ClosePopup(CellState, popup.cell, popup.movedItems),
                               popup.cell, parentWidth) :
          /\ SetCells(o.state)
          /\ last' = CellCall(o.res)
    /\ UNCHANGED <<storeVars, calls, layoutVars>>

NextCell ==
    \/ \E c \in ClientCells, w \in CellWidgets : AddWidgetCall(c, w)
    \/ \E c \in ClientCells, w \in CellWidgets : AdoptWidgetCall(c, w)
    \/ \E c \in ClientCells, w \in CellWidgets : DetachWidgetCall(c, w)
    \/ \E c \in ClientCells, w \in CellWidgets : RemoveWidgetCall(c, w)
    \/ \E c \in BarCells : RemoveAllWidgetsCall(c)
    \/ \E c \in BarCells : CreateLayoutCall(c)
    \/ \E c \in ClientCells, parentWidth \in CellWidths :
           UpdateWidgetsCall(c, parentWidth)
    \/ \E c \in BarCells, mode \in ModeArgs, parentWidth \in CellWidths :
           SetStackModeCall(c, mode, parentWidth)
    \/ \E c \in BarCells, index \in TabArgs, parentWidth \in CellWidths :
           SetActiveTabCall(c, index, parentWidth)
    \/ \E c \in BarCells, parentWidth \in CellWidths :
           ShowOverflowPopupCall(c, parentWidth)
    \/ \E parentWidth \in CellWidths : PopupDismissed(parentWidth)

SpecCell == InitCell /\ [][NextCell]_vars

\* C17: a cell never has a nested layout and a non-empty widget list at the
\* same time, whatever sequence of AddWidget, AdoptWidget, RemoveWidget,
\* RemoveAllWidgets and CreateLayout was called on it.
C17_NestedExcludesWidgets ==
    \A c \in CellIds : ~(nested[c] /\ widgets[c] # <<>>)

\* how often a widget occurs in a list
Occurrences(list, w) == Cardinality({i \in DOMAIN list : list[i] = w})

\* C18: each widget is in the widget list of at most one cell and occurs
\* in that list at most once.
C18_SingleOwner ==
    \A w \in WidgetIds :
        /\ \A c \in CellIds : Occurrences(widgets[c], w) <= 1
        /\ \A c1, c2 \in CellIds :
               (w \in Range(widgets[c1]) /\ w \in Range(widgets[c2])) => c1 = c2

\* a step that ends in UpdateWidgets of cell c and comes back
Arranges(c) ==
    /\ \E parentWidth \in CellWidths :
          \/ UpdateWidgetsCall(c, parentWidth)
          \/ \E index \in TabArgs : SetActiveTabCall(c, index, parentWidth)
          \/ \E mode \in ModeArgs : SetStackModeCall(c, mode, parentWidth)
          \/ popup.cell = c /\ PopupDismissed(parentWidth)
    /\ last'.res = "done"

\* exactly the widget at the active tab index of cell c is shown
ActiveTabShown(c) ==
    \A k \in DOMAIN widgets[c] :
        visible[widgets[c][k]] <=> (k - 1 = m_activeTab[c])

\* the active tab index of cell c is a valid index of its widget list
ValidTab(c) == m_activeTab[c] \in 0..(Len(widgets[c]) - 1)

\* C19: in Tabbed mode, after SetActiveTab(i) or any UpdateWidgets, with i a
\* valid index of the widget list, exactly the widget at index i is shown
\* and every other widget of the cell is hidden.
C19_TabbedShowsActiveOnly ==
    [][\A c \in ClientCells :
           (Arranges(c) /\ (m_mode[c] = "Tabbed")' /\ ValidTab(c)')
               => ActiveTabShown(c)']_vars

\* the overflow trigger of cell c exists exactly when its overflow list is
\* not empty
TriggerMatchesOverflow(c) == overflowButton[c] <=> (overflowItems[c] # <<>>)

\* C21: after every UpdateWidgets of a cell in CommandBar mode, the overflow
\* trigger exists if and only if the cell's overflow set is non-empty, also
\* when the widgets of the cell have all been removed.
C21_TriggerIffOverflow ==
    [][\A c \in ClientCells :
           (Arranges(c) /\ (m_mode[c] = "CommandBar")')
               => TriggerMatchesOverflow(c)']_vars

\* a step in which a click on the trigger of cell c opens the popup
OpensPopup(c) ==
    /\ \E parentWidth \in CellWidths : ShowOverflowPopupCall(c, parentWidth)
    /\ popup'.open

\* the cells when the popup is dismissed at once: after the second loop of
\* ShowOverflowPopup, and after the popup was deleted
RestoredAtOnce(c) == RestoreWidgets(CellState, c, popup.movedItems, 1)
ClosedAtOnce(c) == ClosePopup(CellState, c, popup.movedItems)

\* C23: when the popup opened from the trigger is dismissed and
\* ShowOverflowPopup returns, the widget list of the original cell is the
\* same sequence as immediately before the trigger was activated, and the
\* cell of the popup owns none of its widgets.
C23_PopupRoundTrip ==
    [][\A c \in BarCells :
           OpensPopup(c) =>
               /\ ClosedAtOnce(c)'.widgets[c] = widgets[c]
               /\ Range(RestoredAtOnce(c)'.widgets["popup"])
                      \cap Range(widgets[c]) = {}
               /\ RestoredAtOnce(c)'.popup.registered
                      \cap Range(widgets[c]) = {}]_vars

\* the overflow trigger of cell c can be activated: it exists, and no popup
\* is open
CanActivate(c) == overflowButton[c] /\ ~popup.open

\* C25: whenever the overflow trigger can be activated, every widget in the
\* overflow list of the cell is in the widget list of that cell; a widget
\* taken out with RemoveWidget is never moved into the overflow popup and
\* adopted back into the cell by a later activation of the trigger.
C25_OverflowWithinWidgets ==
    \A c \in ClientCells :
        CanActivate(c) => Range(overflowItems[c]) \subseteq Range(widgets[c])

\* a step in which UpdateWidgets of cell c runs while the popup that the
\* trigger of c has opened is still in its message loop
UpdatesUnderPopup(c) ==
    /\ popup.open /\ popup.cell = c
    /\ \E parentWidth \in CellWidths :
          \/ UpdateWidgetsCall(c, parentWidth)
          \/ \E index \in TabArgs : SetActiveTabCall(c, index, parentWidth)
          \/ \E mode \in ModeArgs : SetStackModeCall(c, mode, parentWidth)

\* C27: if UpdateWidgets of the original cell runs re-entrantly while its
\* overflow popup is open, the overflow trigger, whose activation handler
\* has not returned yet, is not destroyed.
C27_TriggerOutlivesHandler ==
    [][\A c \in ClientCells :
           (UpdatesUnderPopup(c) /\ overflowButton[c]) => overflowButton'[c]]_vars

---------------------------------------------------------------------------
(* The command bar model: a cell in CommandBar mode that holds a list of   *)
(* widgets is arranged at several widths.                                  *)

\* widgets in the command bar
MaxBarItems == 5

\* the widgets the command bar can hold: one of width "25%", one of
\* "100px", one without a width and four of "80px"
BarPool == {"w1", "w5", "w6", "w7", "w8", "w9", "w10"}

\* the lists of at most n different widgets of the pool
RECURSIVE BarItemLists(_)
BarItemLists(n) ==
    IF n = 0 THEN {<<>>}
    ELSE LET shorter == BarItemLists(n - 1)
         IN  shorter \cup {Append(l, w) : l \in shorter, w \in BarPool}

\* the widths of the client rectangle of the command bar
BarWidths == {90, 204, 300}

\* the record of an UpdateWidgets call on the command bar
BarCall(parentWidth) == [op |-> "UpdateWidgets", availableWidth |-> parentWidth]

\* the cell "bar" in CommandBar mode after AddWidget was called for every
\* widget of a list, before its first UpdateWidgets
InitBar ==
    /\ m_parent = [n \in Nodes |->
                      CASE n = "ctl" -> NoNode [] n = "con" -> "ctl"
                        [] n = "lay" -> "con" [] n = "cell" -> "lay"
                        [] n = "wid" -> "cell" [] OTHER -> NoNode]
    /\ m_properties = Constructed
    /\ m_checked = [w \in Widgets |-> FALSE]
    /\ m_validated = [w \in Widgets |-> TRUE]
    /\ m_hwnd = [w \in Widgets |-> TRUE]
    /\ wndEnabled = [w \in Widgets |-> TRUE]
    /\ registry = EmptyMap
    /\ last = [op |-> "none", availableWidth |-> 0]
    /\ calls = NoCalls
    /\ dpi \in Dpis
    /\ LayoutCtor
    /\ \E l \in {x \in BarItemLists(MaxBarItems) :
                    \A i, j \in DOMAIN x : i # j => x[i] # x[j]} :
          /\ widgets = [c \in CellIds |-> IF c = "bar" THEN l ELSE <<>>]
          /\ hwndParent = [w \in WidgetIds |->
                              IF \E i \in DOMAIN l : l[i] = w THEN "bar" ELSE NoCell]
          /\ visible = [w \in WidgetIds |-> \E i \in DOMAIN l : l[i] = w]
    /\ nested = [c \in CellIds |-> FALSE]
    /\ m_mode = [c \in CellIds |-> IF c = "bar" THEN "CommandBar" ELSE "Vertical"]
    /\ m_activeTab = [c \in CellIds |-> 0]
    /\ overflowItems = [c \in CellIds |-> <<>>]
    /\ overflowButton = [c \in CellIds |-> FALSE]
    /\ leftWindows = {}
    /\ popup = NoPopup
    /\ InitFactory
    /\ InitLoops

\* CellImpl::UpdateWidgets of the command bar, its client rectangle being
\* parentWidth wide
BarUpdateWidgets(parentWidth) ==
    /\ SetCells(UpdateWidgets(CellState, "bar", parentWidth))
    /\ last' = BarCall(parentWidth)
    /\ UNCHANGED <<storeVars, calls, layoutVars>>

NextBar == \E parentWidth \in BarWidths : BarUpdateWidgets(parentWidth)

SpecBar == InitBar /\ [][NextBar]_vars

\* the sum of width + spacing of the widgets of a list before position k
RECURSIVE UsedBefore(_, _, _)
UsedBefore(list, k, availableWidth) ==
    IF k <= 1 THEN 0
    ELSE UsedBefore(list, k - 1, availableWidth)
         + WidgetWidth(list[k - 1], availableWidth) + Scale(4)

\* used + width_k + spacing + reservedTriggerWidth <= availableWidth
FitsWithTrigger(list, k, availableWidth) ==
    UsedBefore(list, k, availableWidth) + WidgetWidth(list[k], availableWidth)
        + Scale(4) + Scale(40) <= availableWidth

\* every widget up to position k fits together with the trigger
FitsUpTo(list, k, availableWidth) ==
    \A j \in 1..k : FitsWithTrigger(list, j, availableWidth)

\* five widgets, each 80px wide, in a bar of 300px at 96 DPI
FiveOf80In300 ==
    /\ last = BarCall(300)
    /\ dpi = 96
    /\ Len(widgets["bar"]) = 5
    /\ \A k \in 1..5 : WidgetWidth(widgets["bar"][k], 300) = 80

\* C22: with overflow allowed, the measurement of a command bar declares
\* widget k visible exactly when every earlier widget is visible and
\* used + width_k + spacing + reservedTriggerWidth <= availableWidth; five
\* 80px widgets in a 300px bar leave the first three visible, the last two
\* in the overflow list, and an overflow trigger.
C22_VisibleIffFitsWithTrigger ==
    (last.op = "UpdateWidgets" /\ widgets["bar"] # <<>>) =>
        LET list == widgets["bar"]
        IN  /\ \A k \in DOMAIN list :
                   /\ (list[k] \notin Range(overflowItems["bar"]))
                          <=> FitsUpTo(list, k, last.availableWidth)
                   /\ visible[list[k]]
                          <=> FitsUpTo(list, k, last.availableWidth)
            /\ FiveOf80In300 =>
                   /\ overflowItems["bar"] = SubSeq(list, 4, 5)
                   /\ overflowButton["bar"]
                   /\ \A k \in 1..3 : visible[list[k]]

\* five 80px widgets were arranged in a 300px bar: two of them overflowed
C22_Witness ==
    /\ FiveOf80In300
    /\ Len(overflowItems["bar"]) = 2
    /\ overflowButton["bar"]

---------------------------------------------------------------------------
(* The tree model: a client builds and rebuilds the layouts of a container *)
(* and moves widgets between their cells; m_parent is the parent pointer   *)
(* of every node.                                                          *)

\* the controller, a container, its root layout with the cells "bar" and
\* "side", the layout nested in "bar" with the cell "inner", and the widgets
TreeLayouts == {"root", "sub"}
TreeCells == {"bar", "side", "inner"}
TreeWidgets == {"w1", "w5"}
TreeNodes == {"ctl", "con"} \cup TreeLayouts \cup TreeCells \cup TreeWidgets

\* the cells of a layout
CellsOf(layout) == IF layout = "root" THEN {"bar", "side"} ELSE {"inner"}

\* m_parent of an object that does not exist: not yet made, or deleted
NoObject == "freed"

\* a parent pointer to an object that has been deleted
DanglingPtr == "dangling"

\* calls of the client on the tree
MaxTreeOps == 8

\* the parent pointers after the objects of a set were deleted and the
\* widgets that S shows as destroyed were destroyed
ParentsAfter(P, S, deleted) ==
    [n \in TreeNodes |->
        IF n \in deleted \/ (n \in TreeWidgets /\ S.hwndParent[n] = Destroyed)
        THEN NoObject
        ELSE IF P[n] \in deleted THEN DanglingPtr
        ELSE P[n]]

\* the cells whose window DestroyWindow(cell->m_hwnd) destroys: the cell
\* and the cells of its nested layout, which are children of its window
WindowsOf(S, c) ==
    IF c = "bar" /\ S.nested[c] THEN {c} \cup CellsOf("sub") ELSE {c}

\* DestroyWindow(cell->m_hwnd): the windows below it go with it
DestroyCellWindow(S, c) ==
    [S EXCEPT !.hwndParent = [w \in WidgetIds |->
                                 IF @[w] \in WindowsOf(S, c) THEN NoCell
                                 ELSE @[w]],
              !.visible = [w \in WidgetIds |->
                              @[w] /\ S.hwndParent[w] \notin WindowsOf(S, c)],
              !.leftWindows = {p \in @ : p[2] \notin WindowsOf(S, c)}]

\* a window that goes with the window of cell c has a destroyed widget as
\* its user data: BaseWndProc calls HandleMessage on the freed object
UseAfterFree(S, c) ==
    \E p \in S.leftWindows :
        p[2] \in WindowsOf(S, c) /\ S.hwndParent[p[1]] = Destroyed

\* the outcomes of a step: it came back with a state, or the process died
Done(S) == {[state |-> S, res |-> "done"]}
Crashed(S) == {[state |-> S, res |-> "crash"]}

\* the outcomes of a step followed by the step F, which a crash cuts off
Then(O, F(_)) == UNION {IF o.res = "crash" THEN {o} ELSE F(o.state) : o \in O}

\* what DestroyWindow(cell->m_hwnd) can do: with a freed widget behind one
\* of the windows the call either runs on the freed object as if it were
\* there, or crashes
DestroyWindowOutcomes(S, c) ==
    Done(DestroyCellWindow(S, c))
    \cup (IF UseAfterFree(S, c) THEN Crashed(S) ELSE {})

\* LayoutImpl::~LayoutImpl of the layout nested in "bar"
DeleteNested(S) ==
    Then(DestroyWindowOutcomes(S, "inner"), LAMBDA T : Done(Clean(T, "inner")))

\* CellImpl::Clean with the cells of the nested layout
TreeClean(S, c) ==
    Then(IF c = "bar" /\ S.nested[c] THEN DeleteNested(S) ELSE Done(S),
         LAMBDA T : Done(Clean(T, c)))

\* LayoutImpl::~LayoutImpl, one cell: DestroyWindow, then delete
DeleteCell(S, c) ==
    Then(DestroyWindowOutcomes(S, c), LAMBDA T : TreeClean(T, c))

\* LayoutImpl::~LayoutImpl of the root layout
DeleteRoot(S) == Then(DeleteCell(S, "bar"), LAMBDA T : DeleteCell(T, "side"))

\* a container without a root layout; the widgets exist and have no parent
\* node and no window
InitParents ==
    /\ m_parent = [n \in TreeNodes |->
                      CASE n = "ctl" -> NoNode
                        [] n = "con" -> "ctl"
                        [] n \in TreeWidgets -> NoNode
                        [] OTHER -> NoObject]
    /\ m_properties = Constructed
    /\ m_checked = [w \in Widgets |-> FALSE]
    /\ m_validated = [w \in Widgets |-> TRUE]
    /\ m_hwnd = [w \in Widgets |-> TRUE]
    /\ wndEnabled = [w \in Widgets |-> TRUE]
    /\ registry = EmptyMap
    /\ last = CellCall("done")
    /\ calls = NoCalls
    /\ InitUi

\* the client has calls left
TreeRunning == last.res # "crash" /\ calls.cellops < MaxTreeOps

\* the client holds a pointer to cell c: the cell exists and GetCell has
\* returned it
HoldsCell(c) == m_parent[c] \in TreeNodes

\* ContainerImpl::CreateRootLayout
TreeCreateRootLayout ==
    /\ TreeRunning
    /\ \E o \in (IF m_parent["root"] = NoObject THEN Done(CellState)
                 ELSE DeleteRoot(CellState)) :
          LET P == ParentsAfter(m_parent, o.state, TreeLayouts \cup TreeCells)
          IN  /\ SetCells(o.state)
              /\ m_parent' = IF o.res = "crash" THEN m_parent
                             ELSE [P EXCEPT !["root"] = "con",
                                            !["bar"] = NoNode,
                                            !["side"] = NoNode]
              /\ last' = CellCall(o.res)
    /\ Called
    /\ UNCHANGED <<m_properties, m_checked, m_validated, m_hwnd, wndEnabled,
                   registry, layoutVars>>

\* LayoutImpl::GetCell(int, int) with the position of a cell of the layout
TreeGetCell(layout, c) ==
    /\ TreeRunning
    /\ m_parent[layout] # NoObject
    /\ c \in CellsOf(layout)
    /\ m_parent' = [m_parent EXCEPT ![c] = IF @ = NoNode THEN layout ELSE @]
    /\ Called
    /\ UNCHANGED <<m_properties, m_checked, m_validated, m_hwnd, wndEnabled,
                   registry, last, uiVars>>

\* CellImpl::CreateLayout of the cell "bar": Clean, then the new layout and
\* its cell, which GetCell gives its parent
TreeCreateLayout(c) ==
    /\ TreeRunning
    /\ HoldsCell(c)
    /\ \E o \in TreeClean(CellState, c) :
          LET P == ParentsAfter(m_parent, o.state, {"sub", "inner"})
          IN  /\ IF o.res = "crash"
                 THEN SetCells(o.state) /\ UNCHANGED m_parent
                 ELSE /\ SetCells([o.state EXCEPT !.nested[c] = TRUE])
                      /\ m_parent' = [P EXCEPT !["sub"] = c,
                                               !["inner"] = "sub"]
              /\ last' = CellCall(o.res)
    /\ Called
    /\ UNCHANGED <<m_properties, m_checked, m_validated, m_hwnd, wndEnabled,
                   registry, layoutVars>>

\* CellImpl::AddWidget
TreeAddWidget(c, w) ==
    /\ TreeRunning
    /\ HoldsCell(c)
    /\ Alive(w)
    /\ Len(widgets[c]) < MaxCellWidgets
    /\ SetCells(CellAddWidget(CellState, c, w))
    /\ m_parent' = [m_parent EXCEPT ![w] = c]
    /\ Called
    /\ UNCHANGED <<m_properties, m_checked, m_validated, m_hwnd, wndEnabled,
                   registry, last, layoutVars>>

\* CellImpl::DetachWidget
TreeDetachWidget(c, w) ==
    /\ TreeRunning
    /\ HoldsCell(c)
    /\ Alive(w)
    /\ SetCells(DetachWidget(CellState, c, w))
    /\ Called
    /\ UNCHANGED <<storeVars, last, layoutVars>>

\* CellImpl::AdoptWidget of a widget that has a window
TreeAdoptWidget(c, w) ==
    /\ TreeRunning
    /\ HoldsCell(c)
    /\ HasWindow(CellState, w)
    /\ Len(widgets[c]) < MaxCellWidgets
    /\ SetCells(AdoptWidget(CellState, c, w))
    /\ m_parent' = [m_parent EXCEPT ![w] = c]
    /\ Called
    /\ UNCHANGED <<m_properties, m_checked, m_validated, m_hwnd, wndEnabled,
                   registry, last, layoutVars>>

NextTree ==
    \/ TreeCreateRootLayout
    \/ \E layout \in TreeLayouts, c \in TreeCells : TreeGetCell(layout, c)
    \/ \E c \in BarCells : TreeCreateLayout(c)
    \/ \E c \in TreeCells, w \in TreeWidgets : TreeAddWidget(c, w)
    \/ \E c \in TreeCells, w \in TreeWidgets : TreeDetachWidget(c, w)
    \/ \E c \in TreeCells, w \in TreeWidgets : TreeAdoptWidget(c, w)

SpecTree == InitParents /\ [][NextTree]_vars

\* the parent chain of node n ends at the controller within fuel steps, and
\* the controller has no parent
RECURSIVE EndsAtRoot(_, _)
EndsAtRoot(n, fuel) ==
    IF n = "ctl" THEN m_parent["ctl"] = NoNode
    ELSE IF fuel = 0 \/ n \notin TreeNodes THEN FALSE
    ELSE EndsAtRoot(m_parent[n], fuel - 1)

\* the nodes on the parent chain of n, n left out, within fuel steps
RECURSIVE ParentChain(_, _)
ParentChain(n, fuel) ==
    IF fuel = 0 \/ n \notin TreeNodes \/ m_parent[n] \notin TreeNodes THEN {}
    ELSE {m_parent[n]} \cup ParentChain(m_parent[n], fuel - 1)

\* the cells that exist
LiveCells == {c \in TreeCells : m_parent[c] # NoObject}

\* C24: after any sequence of CreateRootLayout, CreateLayout, GetCell,
\* AddWidget, DetachWidget and AdoptWidget the parent relation is acyclic,
\* and the parent chain of every widget held by a cell is finite and ends at
\* the global root, which has no parent.
C24_ParentChainEndsAtRoot ==
    /\ \A n \in TreeNodes : n \notin ParentChain(n, Cardinality(TreeNodes))
    /\ \A c \in LiveCells : \A w \in Range(widgets[c]) :
           EndsAtRoot(w, Cardinality(TreeNodes))

---------------------------------------------------------------------------
(* The trigger model: a command bar makes and tears down its overflow      *)
(* button while the container and the factory keep track of the widgets,   *)
(* and in the end the container is destroyed.                              *)

\* overflow buttons the command bar makes
MaxButtons == 2

\* the overflow buttons, in the order CreateOverflowButton makes them
ButtonName(i) == "b" \o ToString(i)
ButtonIds == {ButtonName(i) : i \in 1..MaxButtons}

\* the container, the factory and the Destroy calls, as one value
FactoryState ==
    [registered |-> m_registeredWidgets, map |-> g_WidgetToPluginMap,
     destroys |-> destroys, overlay |-> m_overlay]

\* the overflow buttons made so far
ButtonsMade(F) == Cardinality(DOMAIN F.destroys \cap ButtonIds)

\* WidgetImpl::Destroy: the widget deletes itself
WidgetDestroy(F, o) == [F EXCEPT !.destroys[o] = @ + 1]

\* WidgetFactory::Destroy: a widget that is in the map is destroyed and
\* taken out of the map, any other pointer is skipped
FactoryDestroy(F, o) ==
    IF o \in F.map THEN [WidgetDestroy(F, o) EXCEPT !.map = @ \ {o}] ELSE F

\* WidgetFactory::Destroy for every widget of a set
RECURSIVE FactoryDestroyAll(_, _)
FactoryDestroyAll(F, objects) ==
    IF objects = {} THEN F
    ELSE LET o == CHOOSE x \in objects : TRUE
         IN  FactoryDestroyAll(FactoryDestroy(F, o), objects \ {o})

\* the deleted objects the container or the factory still has a pointer to
Stale(F) == {o \in F.registered \cup F.map : F.destroys[o] > 0}

\* a set of pointers once a new object lives at the address object o had:
\* a pointer to o is a pointer to the new object
PointersAfter(X, o, new) == IF o \in X THEN (X \ {o}) \cup {new} ELSE X

\* CreateOverflowButton: WidgetFactory::Create, then RegisterWidget. The
\* allocator puts the new button at a fresh address or at the address of a
\* deleted object; in the second case the entries that pointed to the
\* deleted object are found for the new button and nothing is added
FactoryCreateButton(F) ==
    LET btn == ButtonName(ButtonsMade(F) + 1)
    IN  {[F EXCEPT !.map = PointersAfter(@, o, btn) \cup {btn},
                   !.registered = PointersAfter(@, o, btn) \cup {btn},
                   !.destroys = [x \in DOMAIN @ \cup {btn} |->
                                    IF x = btn THEN 0 ELSE @[x]]] :
            o \in Stale(F) \cup {btn}}

\* the overflow button the cell points to: the one made last
CurrentButton(F) == ButtonName(ButtonsMade(F))

\* what the container and the factory can be after UpdateWidgets took the
\* cell from S to T: a button that was made is registered, a button that
\* was torn down got overflowButton->Destroy() and nothing else
FactoryAfterUpdate(F, S, T, c) ==
    IF ~S.overflowButton[c] /\ T.overflowButton[c] THEN FactoryCreateButton(F)
    ELSE IF S.overflowButton[c] /\ ~T.overflowButton[c]
    THEN {WidgetDestroy(F, CurrentButton(F))}
    ELSE {F}

\* the container and the factory after CellImpl::Clean of cell c in S: the
\* widgets are unregistered and destroyed, the button is only destroyed
FactoryAfterClean(F, S, c) ==
    LET listed == Range(S.widgets[c])
        F1 == FactoryDestroyAll([F EXCEPT !.registered = @ \ listed], listed)
    IN  IF S.overflowButton[c] THEN FactoryDestroy(F1, CurrentButton(F1))
        ELSE F1

\* the next state of the cells, the container and the factory
SetTrigger(S, F) ==
    /\ widgets' = S.widgets
    /\ nested' = S.nested
    /\ m_mode' = S.m_mode
    /\ m_activeTab' = S.m_activeTab
    /\ overflowItems' = S.overflowItems
    /\ overflowButton' = S.overflowButton
    /\ hwndParent' = S.hwndParent
    /\ visible' = S.visible
    /\ leftWindows' = S.leftWindows
    /\ popup' = S.popup
    /\ m_registeredWidgets' = F.registered
    /\ g_WidgetToPluginMap' = F.map
    /\ destroys' = F.destroys
    /\ m_overlay' = F.overlay
    /\ UNCHANGED loops

\* the record of a call: whether it came back, and "closed" once the
\* container is gone
TriggerCall(res) == [op |-> "trigger", res |-> res]

\* a container whose cell "bar" is in CommandBar mode and holds no widget
InitTrigger ==
    /\ m_parent = [n \in Nodes |->
                      CASE n = "ctl" -> NoNode [] n = "con" -> "ctl"
                        [] n = "lay" -> "con" [] n = "cell" -> "lay"
                        [] n = "wid" -> "cell" [] OTHER -> NoNode]
    /\ m_properties = Constructed
    /\ m_checked = [w \in Widgets |-> FALSE]
    /\ m_validated = [w \in Widgets |-> TRUE]
    /\ m_hwnd = [w \in Widgets |-> TRUE]
    /\ wndEnabled = [w \in Widgets |-> TRUE]
    /\ registry = EmptyMap
    /\ last = TriggerCall("done")
    /\ calls = NoCalls
    /\ InitLayout
    /\ widgets = [c \in CellIds |-> <<>>]
    /\ nested = [c \in CellIds |-> FALSE]
    /\ m_mode = [c \in CellIds |-> IF c = "bar" THEN "CommandBar" ELSE "Vertical"]
    /\ m_activeTab = [c \in CellIds |-> 0]
    /\ overflowItems = [c \in CellIds |-> <<>>]
    /\ overflowButton = [c \in CellIds |-> FALSE]
    /\ hwndParent = [w \in WidgetIds |-> NoCell]
    /\ visible = [w \in WidgetIds |-> FALSE]
    /\ leftWindows = {}
    /\ popup = NoPopup
    /\ InitFactory
    /\ InitLoops

\* the container exists and the process has not crashed
Open == last.res = "done"

\* CellImpl::AddWidget on the command bar
TriggerAddWidget(w) ==
    /\ Open
    /\ Alive(w)
    /\ Len(widgets["bar"]) < MaxCellWidgets
    /\ SetTrigger(CellAddWidget(CellState, "bar", w),
                  [FactoryState EXCEPT !.registered = @ \cup {w}])
    /\ UNCHANGED <<storeVars, last, calls, layoutVars>>

\* CellImpl::RemoveWidget on the command bar
TriggerRemoveWidget(w) ==
    /\ Open
    /\ Alive(w)
    /\ SetTrigger(RemoveWidget(CellState, "bar", w),
                  IF w \in Range(widgets["bar"])
                  THEN [FactoryState EXCEPT !.registered = @ \ {w}]
                  ELSE FactoryState)
    /\ UNCHANGED <<storeVars, last, calls, layoutVars>>

\* CellImpl::RemoveAllWidgets on the command bar
TriggerRemoveAllWidgets ==
    /\ Open
    /\ SetTrigger(Clean(CellState, "bar"),
                  FactoryAfterClean(FactoryState, CellState, "bar"))
    /\ UNCHANGED <<storeVars, last, calls, layoutVars>>

\* CellImpl::UpdateWidgets on the command bar
TriggerUpdateWidgets(parentWidth) ==
    /\ Open
    /\ \E o \in UpdateOutcomes(CellState, "bar", parentWidth) :
          /\ o.state.overflowButton["bar"] /\ ~overflowButton["bar"]
                 => ButtonsMade(FactoryState) < MaxButtons
          /\ \E F \in FactoryAfterUpdate(FactoryState, CellState, o.state,
                                          "bar") :
                 SetTrigger(o.state, F)
          /\ last' = TriggerCall(o.res)
    /\ UNCHANGED <<storeVars, calls, layoutVars>>

\* what ~ContainerImpl can do: Destroy on a widget that has deleted itself
\* runs on freed memory
DestroyOutcomes(F) ==
    {"closed"} \cup (IF \E o \in F.registered \cap F.map : F.destroys[o] > 0
                     THEN {"crash"} ELSE {})

\* ContainerImpl::~ContainerImpl: every registered widget goes to
\* WidgetFactory::Destroy; the root layout and its cells are not deleted
DestroyContainer ==
    /\ Open
    /\ SetTrigger(DestroyAll(CellState,
                             m_registeredWidgets \cap g_WidgetToPluginMap
                                 \cap WidgetIds),
                  [FactoryDestroyAll(FactoryState, m_registeredWidgets)
                      EXCEPT !.registered = {}])
    /\ last' \in {TriggerCall(res) : res \in DestroyOutcomes(FactoryState)}
    /\ UNCHANGED <<storeVars, calls, layoutVars>>

\* what the application passes to SetOverlay: widgets that it adds to no
\* cell, or nullptr
OverlayArgs == {"w9", "w10", NoOverlay}

\* ContainerImpl::SetOverlay, step 1: the overlay the container has is
\* unregistered and goes to WidgetFactory::Destroy
RemoveOverlay(F) ==
    IF F.overlay = NoOverlay THEN F
    ELSE [FactoryDestroy([F EXCEPT !.registered = @ \ {F.overlay}], F.overlay)
             EXCEPT !.overlay = NoOverlay]

\* ContainerImpl::SetOverlay on the cells and windows S: the window of the
\* old overlay goes with the widget; the new overlay gets a window in the
\* container or its window is moved there, and is shown. A widget that
\* step 1 has deleted has no window to move
OverlayWindows(S, F, w) ==
    LET S1 == IF F.overlay \in F.map THEN DestroyAll(S, {F.overlay}) ELSE S
    IN  IF w = NoOverlay \/ S1.hwndParent[w] = Destroyed THEN S1
        ELSE [S1 EXCEPT !.hwndParent[w] = ContainerWindow, !.visible[w] = TRUE]

\* ContainerImpl::SetOverlay on the container and the factory: after step 1
\* the widget is the overlay and is registered
OverlayFactory(F, w) ==
    IF w = NoOverlay THEN RemoveOverlay(F)
    ELSE [RemoveOverlay(F) EXCEPT !.overlay = w, !.registered = @ \cup {w}]

\* what SetOverlay can do: when the widget passed is the overlay the
\* container has, step 1 deletes it and the rest of the call runs on the
\* freed object as if it were there, or crashes
OverlayOutcomes(F, w) ==
    {"done"} \cup (IF w # NoOverlay /\ w = F.overlay /\ w \in F.map
                   THEN {"crash"} ELSE {})

\* ContainerImpl::SetOverlay
TriggerSetOverlay(w) ==
    /\ Open
    /\ w # NoOverlay => Alive(w)
    /\ SetTrigger(OverlayWindows(CellState, FactoryState, w),
                  OverlayFactory(FactoryState, w))
    /\ last' \in {TriggerCall(res) : res \in OverlayOutcomes(FactoryState, w)}
    /\ UNCHANGED <<storeVars, calls, layoutVars>>

\* calls of WidgetFactory::DestroyAll
MaxDestroyAlls == 1

\* what WidgetFactory::DestroyAll can do: Destroy on a widget of the map
\* that has deleted itself runs on freed memory
DestroyAllOutcomes(F) ==
    {last.res} \cup (IF \E o \in F.map : F.destroys[o] > 0
                     THEN {"crash"} ELSE {})

\* WidgetFactory::DestroyAll: every widget of the map goes to
\* WidgetFactory::Destroy; the cells, the container and its registered list
\* are not told
TriggerDestroyAll ==
    /\ last.res # "crash"
    /\ calls.destroyalls < MaxDestroyAlls
    /\ SetTrigger(DestroyAll(CellState, g_WidgetToPluginMap \cap WidgetIds),
                  FactoryDestroyAll(FactoryState, g_WidgetToPluginMap))
    /\ last' \in {TriggerCall(res) : res \in DestroyAllOutcomes(FactoryState)}
    /\ calls' = [calls EXCEPT !.destroyalls = @ + 1]
    /\ UNCHANGED <<storeVars, layoutVars>>

NextTrigger ==
    \/ \E w \in CellWidgets : TriggerAddWidget(w)
    \/ \E w \in CellWidgets : TriggerRemoveWidget(w)
    \/ TriggerRemoveAllWidgets
    \/ \E parentWidth \in CellWidths : TriggerUpdateWidgets(parentWidth)
    \/ DestroyContainer
    \/ \E w \in OverlayArgs : TriggerSetOverlay(w)
    \/ TriggerDestroyAll

SpecTrigger == InitTrigger /\ [][NextTrigger]_vars

\* C26: every widget is destroyed at most once, and the registered-widget
\* list of the container never holds a destroyed widget, over any sequence
\* of cell and container operations (WidgetFactory::DestroyAll, which is
\* neither, has not run), also when an overflow trigger was torn down and
\* the container is destroyed after it.
C26_DestroyedOnce ==
    calls.destroyalls = 0 =>
        /\ \A o \in DOMAIN destroys : destroys[o] <= 1
        /\ \A o \in m_registeredWidgets : destroys[o] = 0

---------------------------------------------------------------------------
(* Splitter drags: LayoutImpl::OnSplitter, which the parent window runs for *)
(* every WM_CHRONO_SPLIT that a splitter bar sends while it is dragged.     *)

\* std::min
Min(a, b) == IF a <= b THEN a ELSE b

\* newWidth / dpi with dpi = dpiVal / 96.0f, as far as the solver reads it
\* back: (int)size.value, the quotient truncated towards zero
DipOf(px) ==
    IF px >= 0 THEN (px * 96) \div dpi ELSE -(((-px) * 96) \div dpi)

\* totalRightMinWidth / totalBottomMinHeight: the minimums of the tracks
\* after index and the thickness of their splitter bars
TotalLaterMin(dims, index, layoutExtent) ==
    SumBelow([i \in TrackIds(dims) |->
                 IF i > index
                 THEN MinPx(dims[i], layoutExtent)
                      + (IF dims[i].splitter THEN Scale(SPLITTER_SIZE) ELSE 0)
                 ELSE 0],
             Cardinality(TrackIds(dims)))

ClampedSizeMutNoUpperClamp(dims, index, layoutExtent, p) ==
    Max(p - dims[index].pos, MinPx(dims[index], layoutExtent))

\* newWidth / newHeight after the two clamps: the pointer's distance from
\* the track's position, raised to the track's minimum, then lowered to
\* what the later tracks leave
ClampedSize(dims, index, layoutExtent, p) ==
    Min(Max(p - dims[index].pos, MinPx(dims[index], layoutExtent)),
        (layoutExtent - TotalLaterMin(dims, index, layoutExtent))
            - dims[index].pos)

\* the size policy OnSplitter stores in the dragged track
DraggedSize(dims, index, layoutExtent, p) ==
    Fixed(DipOf(ClampedSize(dims, index, layoutExtent, p)))

\* LayoutImpl::OnSplitter on the layout state S: sd is the splitter of
\* track index of the columns (isVert) or of the rows, pt the pointer in
\* client coordinates, sb the width and the height of the scroll bars of
\* the parent window
OnSplitter(S, isVert, index, pt, sb, cap) ==
    RefreshLayout(
        IF isVert
        THEN [S EXCEPT !.m_cols[index].size =
                 DraggedSize(S.m_cols, index,
                     (S.m_lastRect.right - S.m_lastRect.left) - sb[1], pt[1])]
        ELSE [S EXCEPT !.m_rows[index].size =
                 DraggedSize(S.m_rows, index,
                     (S.m_lastRect.bottom - S.m_lastRect.top) - sb[2], pt[2])],
        cap)

\* the tracks of one direction
DimsOf(S, isVert) == IF isVert THEN S.m_cols ELSE S.m_rows

\* a splitter bar that can send WM_CHRONO_SPLIT: SetRow / SetCol created
\* its SplitterData and its window, and nothing destroys them before the
\* layout is deleted, whatever the splitter flag is set to afterwards
HasSplitterBar(S, isVert, index) ==
    /\ index \in TrackIds(DimsOf(S, isVert))
    /\ DimsOf(S, isVert)[index].sd

\* the name of a direction in the record of a call
AxisName(isVert) == IF isVert THEN "col" ELSE "row"

\* WM_CHRONO_SPLIT from the splitter bar of a track
OnSplitterCall(isVert, index, pt, sb, cap) ==
    LET after == OnSplitter(LayoutState, isVert, index, pt, sb, cap)
    IN  /\ HasSplitterBar(LayoutState, isVert, index)
        /\ m_lastRect' = after.m_lastRect
        /\ m_rows' = after.m_rows
        /\ m_cols' = after.m_cols
        /\ last' = LayoutCall("OnSplitter", index, AxisName(isVert))
        /\ calls' = [calls EXCEPT !.drags = @ + 1]
        /\ UNCHANGED <<storeVars, cellVars, dpi, m_cells, named_cells>>

\* tracks the application declares before the first drag
MaxSplitDeclared == 2

\* pointer moves the model follows while splitter bars are dragged
MaxDrags == 2

\* what the application declares for a column: size, splitter, minimum
SplitColDecls ==
    {<<Fill(1), TRUE, Fixed(20)>>, <<Percent(50), TRUE, Percent(10)>>,
     <<Fixed(120), FALSE, Fixed(20)>>}

\* what the application declares for a row
SplitRowDecls == {<<Fixed(30), TRUE, Fixed(20)>>}

\* the rectangles the layout is arranged in: x, y, w, h
SplitRects == {<<0, 0, 300, 60>>, <<10, 5, 90, 60>>}

\* where the pointer is during a drag, left of the layout and right of it
\* included: x and y in client coordinates
SplitPoints == {<<-10, -10>>, <<150, 45>>, <<400, 400>>}

\* the scroll bars of the parent window: none, or both at the system width
ScrollBars == {<<0, 0>>, <<17, 17>>}

\* The application declares its tracks, each of them once, before the
\* layout is first solved and arranges it; at any time it declares a column
\* again without the splitter, which leaves the bar where it is; the user
\* drags the splitter bars.
NextSplit ==
    \/ \E i \in 0..(m_rCount - 1), decl \in SplitRowDecls :
          /\ Unsolved
          /\ <<"row", i>> \notin DeclaredTracks
          /\ Cardinality(DeclaredTracks) < MaxSplitDeclared
          /\ SetRowCall(i, decl[1], decl[2], decl[3])
    \/ \E i \in 0..(m_cCount - 1), decl \in SplitColDecls :
          /\ Unsolved
          /\ <<"col", i>> \notin DeclaredTracks
          /\ Cardinality(DeclaredTracks) < MaxSplitDeclared
          /\ SetColCall(i, decl[1], decl[2], decl[3])
    \/ \E i \in 0..(m_cCount - 1) :
          /\ m_cols[i].splitter
          /\ SetColCall(i, m_cols[i].size, FALSE, m_cols[i].min)
    \/ \E r \in SplitRects, cap \in CaptionHeights :
          ArrangeCall(r[1], r[2], r[3], r[4], cap)
    \/ \E isVert \in BOOLEAN, index \in 0..(m_cCount - 1), pt \in SplitPoints,
          sb \in ScrollBars, cap \in CaptionHeights :
          /\ calls.drags < MaxDrags
          /\ OnSplitterCall(isVert, index, pt, sb, cap)

SpecSplit == InitLayoutModel /\ [][NextSplit]_vars

---------------------------------------------------------------------------
(* Claims about splitter drags.                                             *)

\* the last call was a drag of a splitter bar
Dragged == last.op = "OnSplitter"

\* the tracks of the direction of the last drag
DraggedDims == IF last.res = "col" THEN m_cols ELSE m_rows

\* the extent of the outer rectangle in the direction of the last drag
DraggedExtent ==
    IF last.res = "col" THEN m_lastRect.right - m_lastRect.left
    ELSE m_lastRect.bottom - m_lastRect.top

\* where the outer rectangle starts in the direction of the last drag
DraggedOffset == IF last.res = "col" THEN m_lastRect.left ELSE m_lastRect.top

\* the sum of the resolved minimums of the tracks after index
LaterMinimums(dims, index, total) ==
    SumBelow([i \in TrackIds(dims) |->
                 IF i > index THEN MinPx(dims[i], total) ELSE 0],
             Cardinality(TrackIds(dims)))

\* the interval the resolved size of a dragged track is to lie in
DragLow == MinPx(DraggedDims[last.index], DraggedExtent)
DragHigh == DraggedExtent - LaterMinimums(DraggedDims, last.index, DraggedExtent)

C28_WitnessFlagOff ==
    /\ Dragged /\ DragLow < DragHigh
    /\ ~DraggedDims[last.index].splitter
    /\ DraggedDims[last.index].sd
    /\ DraggedDims[last.index].actual > DragLow

\* a second pointer move of a drag moved the track again
C28_WitnessSecondDrag ==
    /\ Dragged /\ DragLow < DragHigh
    /\ calls.drags = 2
    /\ DraggedDims[last.index].actual > DragLow
    /\ DraggedDims[last.index].actual < DragHigh

\* the extent of the outer rectangle of S in one direction
ExtentOf(S, isVert) ==
    IF isVert THEN S.m_lastRect.right - S.m_lastRect.left
    ELSE S.m_lastRect.bottom - S.m_lastRect.top

\* where the outer rectangle of S starts in one direction
OffsetOf(S, isVert) == IF isVert THEN S.m_lastRect.left ELSE S.m_lastRect.top

\* the tracks of one direction end inside the outer rectangle: the last
\* track's position, size and splitter thickness do not exceed the extent
FitsInside(S, isVert) ==
    LET dims == DimsOf(S, isVert)
        n == Cardinality(TrackIds(dims)) - 1
    IN  (dims[n].pos - OffsetOf(S, isVert)) + dims[n].actual
            + (IF dims[n].splitter THEN Scale(SPLITTER_SIZE) ELSE 0)
        <= ExtentOf(S, isVert)

\* every track after index has at least its minimum
LaterKeepMinimum(S, isVert, index) ==
    \A j \in TrackIds(DimsOf(S, isVert)) :
        j > index =>
            DimsOf(S, isVert)[j].actual
                >= MinPx(DimsOf(S, isVert)[j], ExtentOf(S, isVert))

\* the pointer moves of a drag on one splitter bar
DragsOn(isVert, index) ==
    /\ last'.op = "OnSplitter"
    /\ last'.index = index /\ last'.res = AxisName(isVert)
    /\ \E pt \in SplitPoints, sb \in ScrollBars, cap \in CaptionHeights :
          OnSplitterCall(isVert, index, pt, sb, cap)

\* C29: after any splitter drag on track i and the re-arrange it triggers,
\* every later track of the same axis still has at least its minimum and
\* the tracks still end inside the previous outer rectangle, whenever the
\* layout had been arranged in a rectangle that is not empty and all tracks
\* fitted inside it before the drag.
C29_LaterTracksStayInside ==
    [][\A isVert \in BOOLEAN, index \in 0..(m_cCount - 1) :
          (/\ DragsOn(isVert, index)
           /\ ExtentOf(LayoutState, isVert) > 0
           /\ FitsInside(LayoutState, isVert)) =>
              /\ LaterKeepMinimum(LayoutState, isVert, index)'
              /\ FitsInside(LayoutState, isVert)']_vars

\* C30: a splitter drag converts the new
\* size back to the declared unit of the dragged track, so the size policy
\* keeps its unit (Percent stays Percent, Fill stays Fill) and only its
\* value changes, and the re-arrange uses the previous outer rectangle
\* unchanged.
C30_DragKeepsUnit ==
    [][\A isVert \in BOOLEAN, index \in 0..(m_cCount - 1) :
          DragsOn(isVert, index) =>
              /\ DimsOf(LayoutState, isVert)'[index].size.unit
                    = DimsOf(LayoutState, isVert)[index].size.unit
              /\ DimsOf(LayoutState, isVert)'[index].size.metric
                    = DimsOf(LayoutState, isVert)[index].size.metric
              /\ m_lastRect' = m_lastRect]_vars

---------------------------------------------------------------------------
(* Collapsed columns under SetCol and splitter drags.                       *)

\* the columns that are declared and dragged: those the application
\* collapses and restores
CollapseCols == ColumnArgs \cap DOMAIN m_cols

\* pointer moves the model follows on the bar of a column that collapses
MaxCollapseDrags == 1

\* The application declares these columns at any time, arranges, collapses
\* and restores; the user drags their splitter bars.
NextCollapse ==
    \/ \E i \in CollapseCols, decl \in SplitColDecls :
          SetColCall(i, decl[1], decl[2], decl[3])
    \/ \E r \in SplitRects, cap \in CaptionHeights :
          ArrangeCall(r[1], r[2], r[3], r[4], cap)
    \/ \E index \in ColumnArgs, cap \in CaptionHeights :
          CollapseColumnCall(index, cap)
    \/ \E index \in ColumnArgs, cap \in CaptionHeights :
          RestoreColumnCall(index, cap)
    \/ \E index \in CollapseCols, pt \in SplitPoints,
          sb \in ScrollBars, cap \in CaptionHeights :
          /\ calls.drags < MaxCollapseDrags
          /\ OnSplitterCall(TRUE, index, pt, sb, cap)

SpecCollapse == InitLayoutModel /\ [][NextCollapse]_vars

\* C31: in every reachable state a column flagged collapsed has a size
\* policy equal to its minimum policy, also when SetCol or a splitter drag
\* is applied to the column while it is collapsed.
C31_CollapsedAtMinimum ==
    \A i \in DOMAIN m_cols : m_cols[i].isCollapsed => m_cols[i].size = m_cols[i].min

---------------------------------------------------------------------------
(* Claims about the positions Arrange gives to tracks and splitter bars.    *)

\* sx / sy in LayoutImpl::Arrange: where the splitter bar of a track is put
SplitterBarPos(d) == d.pos + d.actual

\* the thickness of the splitter bar of a track, 0 without one
BarThickness(d) == IF d.splitter THEN Scale(SPLITTER_SIZE) ELSE 0

\* C32: after arrange(x, y, w, h), on each axis the first track is at the
\* origin of the axis and every next track is at the previous track's
\* position plus its resolved size plus the splitter thickness if the
\* previous track has a splitter; hence tracks never overlap and each
\* splitter bar lies between its track and the next one.
C32_CumulativePositions ==
    last.op = "Arrange" =>
        \A axis \in Axes :
            /\ axis.dims[0].pos = axis.offset
            /\ \A i \in DOMAIN axis.dims :
                  i > 0 =>
                      /\ axis.dims[i].pos
                            = axis.dims[i - 1].pos + axis.dims[i - 1].actual
                              + BarThickness(axis.dims[i - 1])
                      /\ SplitterBarPos(axis.dims[i - 1])
                            + BarThickness(axis.dims[i - 1]) = axis.dims[i].pos
            /\ \A i, j \in DOMAIN axis.dims :
                  i < j => axis.dims[i].pos + axis.dims[i].actual
                              <= axis.dims[j].pos

\* an arranged layout with a splitter bar between two columns that both
\* have a width, away from the origin of the client area
C32_Witness ==
    /\ last.op = "Arrange"
    /\ m_lastRect.top > 0
    /\ \E i \in DOMAIN m_cols :
          /\ i > 0 /\ m_cols[i - 1].splitter
          /\ m_cols[i - 1].actual > 0 /\ m_cols[i].actual > 0
          /\ m_cols[i - 1].pos > m_lastRect.left

---------------------------------------------------------------------------
(* Claims about the lists MeasureCommandBarWidgets fills.                   *)

\* l is m followed by something
IsPrefix(m, l) == Len(m) <= Len(l) /\ SubSeq(l, 1, Len(m)) = m

\* C33 as the specification states it: MeasureCommandBarWidgets splits the
\* widget list of the cell into a visible prefix and an overflow suffix:
\* every widget is in exactly one of the two lists, and once a widget is in
\* the overflow list every later widget is there too.
C33_PrefixAndSuffix ==
    last.op = "MeasureCommandBarWidgets" =>
        last.visible \o last.overflow = widgets["bar"]

\* C33 as the code has it: when overflow is allowed (the default),
\* MeasureCommandBarWidgets splits the widget list into a visible prefix
\* and an overflow suffix; when the cell's overflow property is "false" the
\* overflow list stays empty, the visible widgets are in the order of the
\* list, and a widget that does not fit is in neither list.
C33_PrefixAndSuffixIfAllowed ==
    last.op = "MeasureCommandBarWidgets" =>
        /\ last.allowOverflow =>
              /\ last.visible \o last.overflow = widgets["bar"]
              /\ IsPrefix(last.visible, widgets["bar"])
        /\ ~last.allowOverflow =>
              /\ last.overflow = <<>>
              /\ Range(last.visible) \subseteq Range(widgets["bar"])
              /\ \A i, j \in DOMAIN last.visible :
                    i < j => Find(widgets["bar"], last.visible[i])
                                < Find(widgets["bar"], last.visible[j])

\* a measurement with overflow allowed that left widgets in both lists
C33_Witness ==
    /\ last.op = "MeasureCommandBarWidgets" /\ last.allowOverflow
    /\ Len(last.visible) > 0 /\ Len(last.overflow) > 1

\* a measurement with overflow disabled in which a widget was dropped and
\* a later one is visible
C33_WitnessDropped ==
    /\ last.op = "MeasureCommandBarWidgets" /\ ~last.allowOverflow
    /\ last.visible # <<>>
    /\ ~IsPrefix(last.visible, widgets["bar"])

---------------------------------------------------------------------------
(* The popup model: the message loop that ShowOverflowPopup blocks in.      *)
(* ContainerImpl::RunMessageLoop is `while (m_running && GetMessageW(...))  *)
(* { TranslateMessage; DispatchMessageW; }`. A frame of `loops` is one such *)
(* call on the stack: m_running of the popup container, whether its window  *)
(* is shown, where the loop stands ("wait": inside GetMessageW, "test":     *)
(* a message was dispatched and the condition is tested next), and what     *)
(* the call has suspended: the popup of the call around it. The variable    *)
(* popup and the cell "popup" are those of the innermost call.              *)

\* nested overflow popups
MaxPopups == 2

\* the widget lists of the command bar: widths 25%, 100px, 80px
PopupBarLists ==
    {<<"w1", "w5">>, <<"w1", "w5", "w7">>, <<"w7", "w1", "w5">>}

\* the widths of the client rectangle of the command bar
PopupWidths == {30, 90, 300}

\* nothing is suspended: the call was made with no popup open
NoSuspended == [popup |-> NoPopup, list |-> <<>>]

\* ContainerImpl::ContainerImpl and ShowPopup: m_running = true, the window
\* is shown and active, and RunMessageLoop waits for its first message
LoopFrame(suspended) ==
    [m_running |-> TRUE, shown |-> TRUE, pc |-> "wait", suspended |-> suspended]

\* a popup that is hidden and goes on running
HidePopupMutKeepsRunning(frame) == [frame EXCEPT !.shown = FALSE]

\* the popup branches of ContainerImpl::WndProc, WM_ACTIVATE with
\* WA_INACTIVE and a button pressed outside the client area:
\* ShowWindow(hwnd, SW_HIDE); self->m_running = false
HidePopup(frame) == [frame EXCEPT !.shown = FALSE, !.m_running = FALSE]

\* the loops after DispatchMessageW of the innermost one has come back
Dispatched(L) == IF L = <<>> THEN L ELSE <<[L[1] EXCEPT !.pc = "test"]>> \o Tail(L)

\* the loops after the innermost popup has lost the activation
Deactivated(L) == IF L = <<>> THEN L ELSE <<HidePopup(L[1])>> \o Tail(L)

\* the next state of the cells and of the loops
SetLoops(S, L) ==
    /\ widgets' = S.widgets
    /\ nested' = S.nested
    /\ m_mode' = S.m_mode
    /\ m_activeTab' = S.m_activeTab
    /\ overflowItems' = S.overflowItems
    /\ overflowButton' = S.overflowButton
    /\ hwndParent' = S.hwndParent
    /\ visible' = S.visible
    /\ leftWindows' = S.leftWindows
    /\ popup' = S.popup
    /\ loops' = L
    /\ UNCHANGED factoryVars

\* a command bar in CommandBar mode that holds a list of widgets
InitPopup ==
    /\ m_parent = [n \in Nodes |->
                      CASE n = "ctl" -> NoNode [] n = "con" -> "ctl"
                        [] n = "lay" -> "con" [] n = "cell" -> "lay"
                        [] n = "wid" -> "cell" [] OTHER -> NoNode]
    /\ m_properties = Constructed
    /\ m_checked = [w \in Widgets |-> FALSE]
    /\ m_validated = [w \in Widgets |-> TRUE]
    /\ m_hwnd = [w \in Widgets |-> TRUE]
    /\ wndEnabled = [w \in Widgets |-> TRUE]
    /\ registry = EmptyMap
    /\ last = CellCall("done")
    /\ calls = NoCalls
    /\ InitLayout
    /\ \E l \in PopupBarLists :
          /\ widgets = [c \in CellIds |-> IF c = "bar" THEN l ELSE <<>>]
          /\ hwndParent = [w \in WidgetIds |->
                              IF \E i \in DOMAIN l : l[i] = w THEN "bar" ELSE NoCell]
          /\ visible = [w \in WidgetIds |-> \E i \in DOMAIN l : l[i] = w]
    /\ nested = [c \in CellIds |-> FALSE]
    /\ m_mode = [c \in CellIds |-> IF c = "bar" THEN "CommandBar" ELSE "Vertical"]
    /\ m_activeTab = [c \in CellIds |-> 0]
    /\ overflowItems = [c \in CellIds |-> <<>>]
    /\ overflowButton = [c \in CellIds |-> FALSE]
    /\ leftWindows = {}
    /\ popup = NoPopup
    /\ InitFactory
    /\ InitLoops

\* handlers run when no popup is open, or when the innermost loop has taken
\* a message out of the queue and dispatches it
CanDispatch ==
    /\ last.res # "crash"
    /\ IF loops = <<>> THEN TRUE ELSE loops[1].pc = "wait"

\* the command bar is arranged, by the client or by a WM_SIZE, also while a
\* popup is in its loop
PopupUpdateWidgets(parentWidth) ==
    /\ CanDispatch
    /\ \E o \in UpdateOutcomes(CellState, "bar", parentWidth) :
          /\ SetLoops(o.state, Dispatched(loops))
          /\ last' = CellCall(o.res)
    /\ UNCHANGED <<storeVars, calls, layoutVars>>

\* a click on the overflow button of the command bar: an open popup loses
\* the activation to the main window, then the onClick handler runs
\* ShowOverflowPopup, which returns at once without overflowed items and
\* otherwise runs up to RunMessageLoop of a new popup
TriggerClicked(parentWidth) ==
    LET outer == Dispatched(Deactivated(loops))
        held == [popup |-> popup, list |-> widgets["popup"]]
        fresh == [CellState EXCEPT !.popup = NoPopup, !.widgets["popup"] = <<>>]
    IN  /\ CanDispatch
        /\ overflowButton["bar"]
        /\ IF overflowItems["bar"] = <<>>
           THEN SetLoops(CellState, outer)
           ELSE /\ Len(loops) < MaxPopups
                /\ SetLoops(ShowOverflowPopup(fresh, "bar", parentWidth),
                            <<LoopFrame(held)>> \o outer)
        /\ UNCHANGED <<storeVars, calls, layoutVars, last>>

\* WM_ACTIVATE with WA_INACTIVE is sent to the popup: the window procedure
\* runs inside GetMessageW, which goes on waiting for a queued message
LosesActivation ==
    /\ last.res # "crash"
    /\ loops # <<>>
    /\ loops[1].pc = "wait"
    /\ loops[1].shown
    /\ loops' = Deactivated(loops)
    /\ UNCHANGED <<storeVars, calls, layoutVars, last, widgets, nested, m_mode,
                   m_activeTab, overflowItems, overflowButton, hwndParent,
                   visible, leftWindows, popup, factoryVars>>

\* a button is pressed on the popup outside its client area: the message
\* is taken out of the queue and dispatched
ClickOutside ==
    /\ last.res # "crash"
    /\ loops # <<>>
    /\ loops[1].pc = "wait"
    /\ loops[1].shown
    /\ loops' = Dispatched(Deactivated(loops))
    /\ UNCHANGED <<storeVars, calls, layoutVars, last, widgets, nested, m_mode,
                   m_activeTab, overflowItems, overflowButton, hwndParent,
                   visible, leftWindows, popup, factoryVars>>

\* the queue delivers a message that changes nothing: GetMessageW returns
\* it and it is dispatched
DeliverMessage ==
    /\ last.res # "crash"
    /\ loops # <<>>
    /\ loops[1].pc = "wait"
    /\ loops' = Dispatched(loops)
    /\ UNCHANGED <<storeVars, calls, layoutVars, last, widgets, nested, m_mode,
                   m_activeTab, overflowItems, overflowButton, hwndParent,
                   visible, leftWindows, popup, factoryVars>>

\* the record of a ShowOverflowPopup call that has returned: the depth of
\* its loop on the stack, the cell of the trigger and the items it had moved
PopupReturn(res, depth, c, movedItems) ==
    [op |-> "ShowOverflowPopup", res |-> res, depth |-> depth, cell |-> c,
     movedItems |-> movedItems]

\* ShowOverflowPopup after RunMessageLoop: the moved items are adopted
\* back, the popup is deleted, the cell of the trigger is arranged; the
\* popup of the call around it is the innermost one again
FinalUpdate(S, frame, c, parentWidth) ==
    LET closed == ClosePopup(S, c, S.popup.movedItems)
    IN  {[state |-> [o.state EXCEPT !.popup = frame.suspended.popup,
                                    !.widgets["popup"] = frame.suspended.list],
          res |-> o.res] : o \in UpdateOutcomes(closed, c, parentWidth)}

\* what the test of `m_running && GetMessageW(...)` does to the stack of
\* loops: the innermost loop waits again, or it is left
LoopTested ==
    /\ last.res # "crash"
    /\ loops # <<>>
    /\ loops[1].pc = "test"
    /\ loops' = IF loops[1].m_running
                THEN <<[loops[1] EXCEPT !.pc = "wait"]>> \o Tail(loops)
                ELSE Tail(loops)

\* the loop tests its condition: with m_running it waits for the next
\* message, without it RunMessageLoop returns and ShowOverflowPopup runs
\* to its end
LoopTest(parentWidth) ==
    /\ LoopTested
    /\ IF loops[1].m_running
       THEN /\ SetLoops(CellState, <<[loops[1] EXCEPT !.pc = "wait"]>> \o Tail(loops))
            /\ UNCHANGED last
       ELSE \E o \in FinalUpdate(CellState, loops[1], popup.cell, parentWidth) :
               /\ SetLoops(o.state, Tail(loops))
               /\ last' = PopupReturn(o.res, Len(loops), popup.cell,
                                      popup.movedItems)
    /\ UNCHANGED <<storeVars, calls, layoutVars>>

\* GetMessageW takes WM_QUIT out of the queue and returns 0: the loop ends
\* whatever m_running is
QuitRetrieved(parentWidth) ==
    /\ last.res # "crash"
    /\ loops # <<>>
    /\ loops[1].pc = "wait"
    /\ \E o \in FinalUpdate(CellState, loops[1], popup.cell, parentWidth) :
          /\ SetLoops(o.state, Tail(loops))
          /\ last' = PopupReturn(o.res, Len(loops), popup.cell,
                                 popup.movedItems)
    /\ UNCHANGED <<storeVars, calls, layoutVars>>

NextPopup ==
    \/ \E parentWidth \in PopupWidths : PopupUpdateWidgets(parentWidth)
    \/ \E parentWidth \in PopupWidths : TriggerClicked(parentWidth)
    \/ LosesActivation
    \/ ClickOutside
    \/ DeliverMessage
    \/ \E parentWidth \in PopupWidths : LoopTest(parentWidth)
    \/ \E parentWidth \in PopupWidths : QuitRetrieved(parentWidth)

SpecPopup == InitPopup /\ [][NextPopup]_vars

\* the message queue keeps delivering messages, and a loop that has
\* dispatched a message goes on to test its condition: the one thread runs
\* on. The steps of LoopTest are the steps of Next that are LoopTested
\* steps, and every one of them changes loops.
FairPopup ==
    /\ WF_vars(DeliverMessage)
    /\ WF_loops(LoopTested)

SpecPopupFair == SpecPopup /\ FairPopup

\* the frame of the loop at a depth of the stack, the outermost one at 1
FrameAt(d) == loops[Len(loops) - d + 1]

\* the popup of the loop at depth d has been hidden and its call is blocked
HiddenAt(d) == Len(loops) >= d /\ ~FrameAt(d).shown

\* a popup opened from inside the loop at depth d is on the screen
ShownAbove(d) == \E k \in (d + 1)..Len(loops) : FrameAt(k).shown

\* the ShowOverflowPopup call at depth d has returned, and every item it
\* had moved is a widget of the cell of the trigger again
ReturnedAt(d) ==
    /\ last.op = "ShowOverflowPopup"
    /\ last.depth = d
    /\ last.res = "done"
    /\ Len(loops) = d - 1
    /\ \A i \in DOMAIN last.movedItems :
          /\ last.movedItems[i] \in Range(widgets[last.cell])
          /\ hwndParent[last.movedItems[i]] = last.cell

\* C34 as stated: once an open overflow popup is hidden, its blocked
\* ShowOverflowPopup call eventually returns, while the message queue keeps
\* delivering messages, and the moved widgets are then widgets of the
\* original cell again.
C34_HiddenPopupReturns ==
    \A d \in 1..MaxPopups : HiddenAt(d) ~> ReturnedAt(d)

\* C34: once an open overflow popup is hidden, its blocked
\* ShowOverflowPopup call eventually returns, while the message queue keeps
\* delivering messages, unless an overflow popup opened from inside its
\* message loop is on the screen; on return the moved widgets are widgets
\* of the original cell again.
C34_HiddenPopupReturnsUnlessNested ==
    \A d \in 1..MaxPopups : HiddenAt(d) ~> (ReturnedAt(d) \/ ShownAbove(d))

\* a call that had moved items has returned from its loop
C34_Witness ==
    /\ ReturnedAt(1)
    /\ last.movedItems # <<>>

\* a hidden popup whose call is blocked under a popup that is shown
C34_WitnessNested ==
    /\ HiddenAt(1)
    /\ ShownAbove(1)

---------------------------------------------------------------------------
(* The arrangement model: the CommandBar branch of UpdateWidgets gives the  *)
(* visible widgets and the overflow button their widths and positions.     *)

\* the widths of the client rectangle the command bar is arranged in
ArrangeWidths == {90, 204, 300}

\* the values of the cell's justify-content property
Justifies == {"start", "center", "end"}

\* isAuto of the first loop over the visible widgets
IsAutoWidth(w) == WidthProperty[w] = "auto"

\* finalW of the first loop: 0 for an auto widget, else the parsed width or
\* Scale(80)
FinalW(w, parentWidth) ==
    IF IsAutoWidth(w) THEN 0
    ELSE LET reqW == ParseCssDimension(WidthProperty[w], parentWidth)
         IN  IF reqW >= 0 THEN reqW ELSE Scale(80)

\* the first loop over the visible widgets from position i on: cachedWidths,
\* totalUsedWidth and autoWidgetCount
RECURSIVE CacheFrom(_, _, _, _, _, _)
CacheFrom(vis, i, parentWidth, cachedWidths, totalUsedWidth, autoWidgetCount) ==
    IF i > Len(vis)
    THEN [cachedWidths |-> cachedWidths, totalUsedWidth |-> totalUsedWidth,
          autoWidgetCount |-> autoWidgetCount]
    ELSE LET finalW == FinalW(vis[i], parentWidth)
         IN  IF IsAutoWidth(vis[i])
             THEN CacheFrom(vis, i + 1, parentWidth, Append(cachedWidths, finalW),
                            totalUsedWidth, autoWidgetCount + 1)
             ELSE CacheFrom(vis, i + 1, parentWidth, Append(cachedWidths, finalW),
                            totalUsedWidth + finalW, autoWidgetCount)

\* the loop that hands the remaining space to the auto widgets, from
\* position i on, keeping the remainder as it is
RECURSIVE DistributeFromMutNoRemainder(_, _, _, _, _, _)
DistributeFromMutNoRemainder(vis, i, cachedWidths, widthPerAuto, remainderPixels, totalUsedWidth) ==
    IF i > Len(vis)
    THEN [cachedWidths |-> cachedWidths, totalUsedWidth |-> totalUsedWidth]
    ELSE IF IsAutoWidth(vis[i])
    THEN DistributeFromMutNoRemainder(
             vis, i + 1, [cachedWidths EXCEPT ![i] = widthPerAuto], widthPerAuto,
             remainderPixels, totalUsedWidth + widthPerAuto)
    ELSE DistributeFromMutNoRemainder(vis, i + 1, cachedWidths, widthPerAuto,
                                      remainderPixels, totalUsedWidth)

\* the loop that hands the remaining space to the auto widgets, from
\* position i on
RECURSIVE DistributeFrom(_, _, _, _, _, _)
DistributeFrom(vis, i, cachedWidths, widthPerAuto, remainderPixels, totalUsedWidth) ==
    IF i > Len(vis)
    THEN [cachedWidths |-> cachedWidths, totalUsedWidth |-> totalUsedWidth]
    ELSE IF IsAutoWidth(vis[i])
    THEN LET extra == IF remainderPixels > 0 THEN 1 ELSE 0
         IN  DistributeFrom(
                 vis, i + 1, [cachedWidths EXCEPT ![i] = widthPerAuto + extra],
                 widthPerAuto,
                 IF remainderPixels > 0 THEN remainderPixels - 1
                 ELSE remainderPixels,
                 totalUsedWidth + widthPerAuto + extra)
    ELSE DistributeFrom(vis, i + 1, cachedWidths, widthPerAuto, remainderPixels,
                        totalUsedWidth)

\* the positions of the second loop over the visible widgets from position
\* i on, and the x it leaves for the overflow button
RECURSIVE PlaceFrom(_, _, _, _, _)
PlaceFrom(cachedWidths, i, x, spacing, xs) ==
    IF i > Len(cachedWidths) THEN [xs |-> xs, x |-> x]
    ELSE PlaceFrom(cachedWidths, i + 1, x + cachedWidths[i] + spacing, spacing,
                   Append(xs, x))

\* the x the placement starts at; an int division truncates, and a negative
\* x becomes 0
StartX(justify, parentWidth, totalUsedWidth) ==
    LET x == IF justify = "center"
             THEN (IF parentWidth - totalUsedWidth >= 0
                   THEN (parentWidth - totalUsedWidth) \div 2
                   ELSE -((totalUsedWidth - parentWidth) \div 2))
             ELSE IF justify \in {"end", "right"}
             THEN parentWidth - totalUsedWidth
             ELSE Scale(1)
    IN  IF x < 0 THEN 0 ELSE x

\* btnWidth: Scale(40) / 2 with an overflow button, else 0
BtnWidth(m) == IF m.overflow # <<>> THEN Scale(40) \div 2 ELSE 0

\* totalUsedWidth before the auto widgets get their share: the fixed widths,
\* the spacing between the visible widgets, the spacing and the width of
\* the overflow button
UsedWidth(m, cached) ==
    cached.totalUsedWidth
    + (IF m.visible # <<>> THEN (Len(m.visible) - 1) * Scale(1) ELSE 0)
    + (IF m.overflow # <<>> THEN Scale(1) + BtnWidth(m) ELSE 0)

\* the cached widths and totalUsedWidth after the remaining space was
\* handed out
SharedWidths(m, cached, parentWidth) ==
    LET used == UsedWidth(m, cached)
        remainingSpace == parentWidth - used
    IN  IF cached.autoWidgetCount > 0 /\ remainingSpace > 0
        THEN DistributeFrom(m.visible, 1, cached.cachedWidths,
                            remainingSpace \div cached.autoWidgetCount,
                            remainingSpace % cached.autoWidgetCount, used)
        ELSE [cachedWidths |-> cached.cachedWidths, totalUsedWidth |-> used]

\* what one arrangement has computed
CommandBarBounds(m, cached, shared, placed, parentWidth, allowOverflow, justify) ==
    [op |-> "UpdateWidgets", parentWidth |-> parentWidth,
     allowOverflow |-> allowOverflow, justify |-> justify,
     visible |-> m.visible, overflow |-> m.overflow,
     autoWidgetCount |-> cached.autoWidgetCount,
     remainingSpace |-> parentWidth - UsedWidth(m, cached),
     cachedWidths |-> shared.cachedWidths, xs |-> placed.xs,
     hasButton |-> m.overflow # <<>>, btnX |-> placed.x,
     btnWidth |-> BtnWidth(m)]

\* the CommandBar branch of UpdateWidgets in a client rectangle parentWidth
\* wide: what is visible, what overflows, the width and the x SetBounds
\* gets for every visible widget and for the overflow button. Each step of
\* the code (measure, first loop, distribution, placement) is computed once
\* and its result handed to the next.
ArrangeCommandBar(list, parentWidth, allowOverflow, justify) ==
    CHOOSE r \in UNION { UNION { UNION {
        {CommandBarBounds(m, cached, shared, placed, parentWidth,
                          allowOverflow, justify) :
            placed \in {PlaceFrom(shared.cachedWidths, 1,
                                  StartX(justify, parentWidth,
                                         shared.totalUsedWidth),
                                  Scale(1), <<>>)}} :
            shared \in {SharedWidths(m, cached, parentWidth)}} :
            cached \in {CacheFrom(m.visible, 1, parentWidth, <<>>, 0, 0)}} :
            m \in {MeasureCommandBarWidgets(list, parentWidth, allowOverflow)}} :
        TRUE

\* updateWidgets on the command bar
ArrangeCommandBarCall(parentWidth, allowOverflow, justify) ==
    /\ last' = ArrangeCommandBar(widgets["bar"], parentWidth, allowOverflow,
                                 justify)
    /\ UNCHANGED <<storeVars, calls, uiVars>>

NextArrange ==
    \E parentWidth \in ArrangeWidths, allowOverflow \in BOOLEAN,
       justify \in Justifies :
        ArrangeCommandBarCall(parentWidth, allowOverflow, justify)

\* the widgets of the arranged command bars: widths 25%, auto (three of
\* them), 100px and none
ArrangePool == {"w1", "w4", "w5", "w6", "w11", "w12"}

\* the lists of at most n different widgets of the pool
RECURSIVE ArrangeLists(_)
ArrangeLists(n) ==
    IF n = 0 THEN {<<>>}
    ELSE LET shorter == ArrangeLists(n - 1)
         IN  shorter \cup {Append(l[1], l[2]) :
                              l \in {p \in shorter \X ArrangePool :
                                         p[2] \notin Range(p[1])}}

\* the cell "bar" after AddWidget was called for every widget of a list
InitArrange ==
    /\ m_parent = [n \in Nodes |->
                      CASE n = "ctl" -> NoNode [] n = "con" -> "ctl"
                        [] n = "lay" -> "con" [] n = "cell" -> "lay"
                        [] n = "wid" -> "cell" [] OTHER -> NoNode]
    /\ m_properties = Constructed
    /\ m_checked = [w \in Widgets |-> FALSE]
    /\ m_validated = [w \in Widgets |-> TRUE]
    /\ m_hwnd = [w \in Widgets |-> TRUE]
    /\ wndEnabled = [w \in Widgets |-> TRUE]
    /\ registry = EmptyMap
    /\ last = CellCall("done")
    /\ calls = NoCalls
    /\ InitLayout
    /\ \E l \in ArrangeLists(MaxBarWidgets) :
          /\ widgets = [c \in CellIds |-> IF c = "bar" THEN l ELSE <<>>]
          /\ hwndParent = [w \in WidgetIds |->
                              IF \E i \in DOMAIN l : l[i] = w THEN "bar" ELSE NoCell]
          /\ visible = [w \in WidgetIds |-> \E i \in DOMAIN l : l[i] = w]
    /\ nested = [c \in CellIds |-> FALSE]
    /\ m_mode = [c \in CellIds |-> IF c = "bar" THEN "CommandBar" ELSE "Vertical"]
    /\ m_activeTab = [c \in CellIds |-> 0]
    /\ overflowItems = [c \in CellIds |-> <<>>]
    /\ overflowButton = [c \in CellIds |-> FALSE]
    /\ leftWindows = {}
    /\ popup = NoPopup
    /\ InitFactory
    /\ InitLoops

SpecArrange == InitArrange /\ [][NextArrange]_vars

\* the positions of the auto widgets among the visible ones, left to right
AutoPositions(vis) == {i \in DOMAIN vis : IsAutoWidth(vis[i])}

\* the sum of the cached widths over a set of positions
RECURSIVE WidthSum(_, _)
WidthSum(cachedWidths, P) ==
    IF P = {} THEN 0
    ELSE LET i == CHOOSE j \in P : TRUE
         IN  cachedWidths[i] + WidthSum(cachedWidths, P \ {i})

\* C35: with remaining space R > 0 and n > 0 visible auto widgets, each auto
\* widget gets R \div n or R \div n + 1, the R % n leftmost auto widgets
\* are the ones with the extra pixel, and the auto widths sum to R, where R
\* is the width of the cell less the fixed widths of the visible widgets,
\* the spacing between them and the spacing and width of the trigger.
C35_AutoWidthsShareRemainder ==
    (last.op = "UpdateWidgets" /\ last.autoWidgetCount > 0
        /\ last.remainingSpace > 0) =>
        LET R == last.remainingSpace
            n == last.autoWidgetCount
            A == AutoPositions(last.visible)
            fixed == WidthSum([i \in DOMAIN last.visible |->
                                  FinalW(last.visible[i], last.parentWidth)],
                              DOMAIN last.visible)
        IN  /\ n = Cardinality(A)
            /\ R = last.parentWidth - fixed
                     - (Len(last.visible) - 1) * Scale(1)
                     - (IF last.hasButton THEN Scale(1) + last.btnWidth ELSE 0)
            /\ \A i \in A :
                  last.cachedWidths[i] =
                      R \div n
                      + (IF Cardinality({j \in A : j < i}) < R % n THEN 1 ELSE 0)
            /\ WidthSum(last.cachedWidths, A) = R

\* two auto widgets share a remaining space that leaves a remainder
C35_Witness ==
    /\ last.op = "UpdateWidgets"
    /\ last.autoWidgetCount >= 2
    /\ last.remainingSpace > 0
    /\ last.remainingSpace % last.autoWidgetCount # 0
    /\ \E i \in DOMAIN last.visible : ~IsAutoWidth(last.visible[i])

\* C39: in CommandBar mode with the start justification, after
\* updateWidgets every visible widget and the overflow trigger lie inside
\* the horizontal extent of the cell: x >= 0 and x + width <= cell width,
\* for any mix of fixed-width and auto widgets.
C39_PlacedInsideCell ==
    (last.op = "UpdateWidgets" /\ last.justify = "start") =>
        /\ \A i \in DOMAIN last.visible :
              /\ last.xs[i] >= 0
              /\ last.xs[i] + last.cachedWidths[i] <= last.parentWidth
        /\ last.hasButton =>
              /\ last.btnX >= 0
              /\ last.btnX + last.btnWidth <= last.parentWidth

---------------------------------------------------------------------------
(* The overflow trigger and the stacking mode, on the cell model.           *)

\* a step in which SetStackMode takes cell c out of CommandBar mode or
\* leaves it out of it, and comes back
LeavesCommandBar(c) ==
    /\ m_mode'[c] # "CommandBar"
    /\ last'.res = "done"
    /\ \E mode \in ModeArgs \ {"CommandBar"}, parentWidth \in CellWidths :
          SetStackModeCall(c, mode, parentWidth)

\* C36: after SetStackMode to Vertical, Horizontal or Tabbed and the
\* re-arrange it runs, the cell has no overflow trigger and an empty
\* overflow list, whatever mode it was in before.
C36_NoTriggerOutsideCommandBar ==
    [][\A c \in BarCells :
           LeavesCommandBar(c) =>
               (~overflowButton'[c] /\ overflowItems'[c] = <<>>)]_vars

---------------------------------------------------------------------------
(* Specificity and proximity in the style cascade (checked under           *)
(* SpecStyle).                                                              *)

\* the value the nearest ancestor of node n that holds key gives it, "" if
\* no ancestor holds it
RECURSIVE InheritedValue(_, _)
InheritedValue(n, key) ==
    IF m_parent[n] = NoNode THEN ""
    ELSE IF key \in DOMAIN m_properties[m_parent[n]]
    THEN m_properties[m_parent[n]][key]
    ELSE InheritedValue(m_parent[n], key)

\* the key of the i-th candidate of the last request
CandidateKey(i) ==
    LastLevels[LastCandidates[i].level] \o LastCandidates[i].suffix

\* candidate i is defined, not empty, on an ancestor of the node only
OnAncestorOnly(i) ==
    /\ CandidateKey(i) \notin DOMAIN m_properties[last.node]
    /\ InheritedValue(last.node, CandidateKey(i)) # ""

\* candidate j is defined, not empty, on the node itself
DefinedLocally(j) ==
    /\ CandidateKey(j) \in DOMAIN m_properties[last.node]
    /\ m_properties[last.node][CandidateKey(j)] # ""

\* candidate i is more specific than candidate j: a higher level, or the
\* same level with a state where j has none
MoreSpecific(i, j) ==
    \/ LastCandidates[i].level < LastCandidates[j].level
    \/ /\ LastCandidates[i].level = LastCandidates[j].level
       /\ LastCandidates[i].suffix # ""
       /\ LastCandidates[j].suffix = ""

\* the candidates that are not empty on an ancestor only and more specific
\* than a candidate the node defines itself
InheritedOverLocal ==
    {i \in 1..Len(LastCandidates) :
        /\ OnAncestorOnly(i)
        /\ \E j \in 1..Len(LastCandidates) : MoreSpecific(i, j) /\ DefinedLocally(j)}

\* C37: when a key that is more specific than a key the node defines
\* itself is non-empty on an ancestor only, GetStyle does not return the
\* local, less specific value in its place: the result is the value of the
\* most specific non-empty candidate that applies, which is the inherited
\* key or one more specific still, and it is the ancestor's value when the
\* inherited key is that candidate.
C37_SpecificityOverProximity ==
    last.op = "GetStyle" =>
        \A i \in InheritedOverLocal :
            /\ \E k \in 1..i :
                  /\ LastCandidates[k].value # ""
                  /\ \A h \in 1..(k - 1) : LastCandidates[h].value = ""
                  /\ last.res = LastCandidates[k].value
            /\ (\A h \in 1..(i - 1) : LastCandidates[h].value = "")
                   => last.res = InheritedValue(last.node, CandidateKey(i))

\* the controller's value of the element-level key was returned to a widget
\* that holds a different value for the bare property itself
C37_Witness ==
    /\ last.op = "GetStyle"
    /\ \E i \in InheritedOverLocal :
          /\ \A h \in 1..(i - 1) : LastCandidates[h].value = ""
          /\ last.res = InheritedValue(last.node, CandidateKey(i))
          /\ \E j \in 1..Len(LastCandidates) :
                /\ MoreSpecific(i, j)
                /\ DefinedLocally(j)
                /\ m_properties[last.node][CandidateKey(j)] # last.res

---------------------------------------------------------------------------
(* What a node reads after addClass (checked under SpecCss).                *)

\* the step is addClass(n, c) for a single class c with a base rule
AddClassOfRule(n, c) ==
    /\ last'.op = "AddClass"
    /\ last'.node = n
    /\ last'.val = c
    /\ c \in DOMAIN registry

\* a class of n's class set that is applied after c declares p in its base
\* rule
LaterBaseDeclares(n, c, p) ==
    \E d \in Range(ClassTokens(CurW, n)) :
        StrLess(c, d) /\ d \in DOMAIN registry /\ p \in DOMAIN registry[d]

\* C38 as stated: after addClass(node, c) for a single class c with a base
\* rule, GetProperty(p) on the node is c's declared value for every
\* property p of that rule, whatever the node and its ancestors held before.
C38_AddClassAppliesRule ==
    [][\A n \in CssNodes : \A c \in CssClasses :
          AddClassOfRule(n, c) =>
              \A p \in DOMAIN registry[c] :
                  NodeGetProperty(NextW, n, p, "") = registry[c][p]]_vars

\* C38 amended: the same when c was not in the class set the node resolves
\* (its own class property or an inherited one), for every property p of
\* the rule that no class of that set applied after c declares in its base
\* rule and that is not a key the widget answers from its own state.
C38_AddClassAppliesUnlessHeld ==
    [][\A n \in CssNodes : \A c \in CssClasses :
          (AddClassOfRule(n, c) /\ AddsClass(n, c)) =>
              \A p \in DOMAIN registry[c] :
                  (~LaterBaseDeclares(n, c, p) /\ ~IsWidgetStateKey(n, p)) =>
                      NodeGetProperty(NextW, n, p, "") = registry[c][p]]_vars

\* card was added to a widget that had btn, which declares another color:
\* the widget reads card's color and card's width
C38_Witness ==
    /\ last.op = "AddClass"
    /\ last.node = "wid"
    /\ last.val = "card"
    /\ last.res = "true"
    /\ "btn" \in Range(ClassTokens(CurW, "wid"))
    /\ Registered(registry, "btn", "color")
    /\ Registered(registry, "card", "color")
    /\ Registered(registry, "card", "width")
    /\ registry["btn"]["color"] # registry["card"]["color"]
    /\ GetProperty("wid", "color", "") = registry["card"]["color"]
    /\ GetProperty("wid", "width", "") = registry["card"]["width"]

=============================================================================
